---- MODULE Spec2Model ----
(***************************************************************************)
(* Model of the transcript-acquisition and chunked-summarization pipeline  *)
(* of the YouTube summarizer bot: src/src/youtube_processor.py and         *)
(* src/src/summarizer.py; of the handlers of src/src/bot/telegram_bot.py   *)
(* that read or change the model, the access and the quota of a user       *)
(* (src/src/models/user.py, src/src/models/user_manager.py); of the        *)
(* delivery of a summary in messages (src/src/bot/telegram_bot.py and      *)
(* src/src/bot.py); and of the response cache of src/src/ai_agent.py.      *)
(*                                                                         *)
(* Strings are sequences of one-character strings, so that the regular     *)
(* expressions, strip(), split() and slicing of the source act on single   *)
(* characters as they do in Python.                                        *)
(***************************************************************************)
EXTENDS Integers, Sequences, FiniteSets, TLC

VARIABLES
    pc,           \* process_video / get_subtitles: the step the call is at
    p_url,        \* process_video: the url argument
    languages,    \* process_video / get_subtitles: the preferred languages
    listing,      \* what YouTubeTranscriptApi.list_transcripts did: "", "ok" or the error raised
    tracks,       \* transcript_list: the available transcripts, in iteration order
    transcript,   \* get_subtitles: whether the local variable transcript is not None
    li,           \* get_subtitles: the index in languages the running loop is at
    ti,           \* get_subtitles: the index in the transcripts the running loop is at
    attempted,    \* the strategies of get_subtitles entered so far, in order
    fetches,      \* the calls get_subtitles made for a transcript so far, in order
    gs_result,    \* Pending, or Returned(how get_subtitles ended)
    pv_result,    \* Pending, or Returned(what process_video gave its caller)
    u_url,        \* extract_video_id: the url argument
    u_shape,      \* the url shape (literal part) the url was built around
    u_id,         \* the video id the url was built around
    u_trail,      \* what follows the video id in the url
    u_result,     \* extract_video_id: Pending, or Returned(the id or NoMatch)
    a_input,      \* _construct_transcript_text: subtitle_data
    a_output,     \* _construct_transcript_text: Pending or Returned(text)
    c_text,       \* chunking: the text argument
    c_size,       \* chunk_text: max_chunk_size / _split_text_into_chunks: chunk_size
    c_model,      \* Summarizer.summarize: the model argument ("" before the call)
    c_yt,         \* Pending or Returned(list) of YouTubeProcessor.chunk_text
    c_split,      \* Pending or Returned(list) of Summarizer._split_text_into_chunks
    c_handed,     \* Pending or Returned(the texts Summarizer.summarize hands to the language model)
    s_pc,         \* Summarizer.summarize: the step the call is at
    s_text,       \* Summarizer.summarize: the text argument
    s_model,      \* Summarizer.summarize: model_to_use
    s_chunks,     \* _split_text_and_summarize: chunks (summarize: the one text it passes on)
    s_i,          \* _split_text_and_summarize: the index of the for loop over chunks
    s_summaries,  \* _split_text_and_summarize: part_summaries
    s_calls,      \* the openai.ChatCompletion.create calls made so far, in order
    s_result,     \* Pending or Returned(the text summarize returns)
    user,         \* the User object of the sender, as UserManager stores it
    summarizer_model, \* Summarizer.model, the default model chosen at start-up
    handler,      \* the handler of TelegramBot that ran last ("" before the first)
    runs,         \* the summarization runs started for the user, in order
    q_user,       \* a User object: is_admin, is_approved, remaining_requests
    q_calls,      \* the calls of use_request, grant_access and revoke_access on q_user, in order
    users,        \* UserManager.users: the User object of every known user id
    tasks,        \* the invocations of process_youtube_link so far, in order of arrival
    last,         \* the user id of the sender of the update handled by the step taken last (0: none yet)
    quota,        \* per user other than the admin: the requests of the last grant_access or revoke_access (a new user: the default)
    started,      \* per user id: the video-processing runs started since then
    m_summary,    \* process_youtube_link: clean_summary, the summary after the clean-up
    m_aiogram,    \* Pending or Returned(the messages bot/telegram_bot.py sends for it, in order)
    m_telebot,    \* Pending or Returned(the messages bot.py sends for it, in order)
    k_cache,      \* AIAgent: the cache files, cache key -> response
    k_calls       \* AIAgent: the calls of summarize_text and combine_summaries, in order

fetchVars == <<pc, p_url, languages, listing, tracks, transcript, li, ti, attempted, fetches, gs_result, pv_result>>
urlVars == <<u_url, u_shape, u_id, u_trail, u_result>>
asmVars == <<a_input, a_output>>
chunkVars == <<c_text, c_size, c_model, c_yt, c_split, c_handed>>
sumVars == <<s_pc, s_text, s_model, s_chunks, s_i, s_summaries, s_calls, s_result>>
userVars == <<user, summarizer_model, handler, runs>>
counterVars == <<q_user, q_calls>>
accessVars == <<users, tasks, last, quota, started>>
pageVars == <<m_summary, m_aiogram, m_telebot>>
cacheVars == <<k_cache, k_calls>>

\* ------------------------------------------------------------------------
\* Bounds of the model
\* ------------------------------------------------------------------------

\* longest trailing part put after the video id of a generated url
MaxTrail == 2

\* ------------------------------------------------------------------------
\* Characters and Python string operations
\* ------------------------------------------------------------------------

\* a call that has not returned yet, and one that returned v
Pending == <<>>
Returned(v) == <<v>>
Value(r) == r[1]

\* str.isspace() / the regex class \s, over the characters of the model
IsSpace(c) == c \in {" ", "\n", "\t"}

\* the seq s without its first n elements: s[n:]
Drop(s, n) == IF n >= Len(s) THEN <<>> ELSE SubSeq(s, n + 1, Len(s))

\* the first n elements of s: s[:n]
Take(s, n) == IF n >= Len(s) THEN s ELSE SubSeq(s, 1, n)

\* whether lit occurs in s at (1-based) position p
OccursAt(s, lit, p) ==
    /\ p >= 1
    /\ p + Len(lit) - 1 <= Len(s)
    /\ \A i \in 1..Len(lit) : s[p + i - 1] = lit[i]

\* ------------------------------------------------------------------------
\* YouTubeProcessor.extract_video_id
\* ------------------------------------------------------------------------

LitWatch == <<"y","o","u","t","u","b","e",".","c","o","m","/","w","a","t","c","h","?","v","=">>
LitEmbed == <<"y","o","u","t","u","b","e",".","c","o","m","/","e","m","b","e","d","/">>
LitShort == <<"y","o","u","t","u",".","b","e","/">>
LitShorts == <<"y","o","u","t","u","b","e",".","c","o","m","/","s","h","o","r","t","s","/">>

\* the capture classes of the four patterns: [^&\s] for watch?v=, [^\?\s] for the rest
StopWatch(c) == c = "&" \/ IsSpace(c)
StopPath(c) == c = "?" \/ IsSpace(c)

\* youtube_regex: the ordered list of (literal part, capture class) pairs.  The
\* optional groups (?:https?:\/\/)? and (?:www\.)? before the literal can match
\* the empty string, so they never decide whether or where the group captures.
youtube_regex == <<
    [lit |-> LitWatch, watch |-> TRUE],
    [lit |-> LitEmbed, watch |-> FALSE],
    [lit |-> LitShort, watch |-> FALSE],
    [lit |-> LitShorts, watch |-> FALSE] >>

Stops(pat, c) == IF pat.watch THEN StopWatch(c) ELSE StopPath(c)

\* positions where re.search can match pat: the literal occurs and is followed by
\* at least one character of the capture class
MatchStarts(pat, url) ==
    { p \in 1..Len(url) :
        /\ OccursAt(url, pat.lit, p)
        /\ p + Len(pat.lit) <= Len(url)
        /\ ~Stops(pat, url[p + Len(pat.lit)]) }

Min(S) == CHOOSE x \in S : \A y \in S : x <= y

\* match.group(1) of the leftmost match: the longest run of class characters
Group1(pat, url) ==
    LET p == Min(MatchStarts(pat, url))
        from == p + Len(pat.lit)
        ends == { e \in from..Len(url) :
                    /\ \A i \in from..e : ~Stops(pat, url[i])
                    /\ (e = Len(url) \/ Stops(pat, url[e + 1])) }
    IN SubSeq(url, from, Min(ends))

NoMatch == <<"ValueError">>

\* the for loop over youtube_regex: the first pattern that matches wins
extract_video_id(url) ==
    LET hits == { k \in 1..Len(youtube_regex) : MatchStarts(youtube_regex[k], url) # {} }
    IN IF hits = {} THEN NoMatch ELSE Group1(youtube_regex[Min(hits)], url)

\* ---- the urls the model feeds to extract_video_id ----------------------

SchemeParts == { <<>>, <<"h","t","t","p","s",":","/","/">>,
                 <<"h","t","t","p",":","/","/","w","w","w",".">> }
ShapeParts == { LitWatch, LitEmbed, LitShort, LitShorts }
\* a url without any of the four shapes
OtherParts == { <<"v","i","m","e","o",".","c","o","m","/">>, <<"y","o","u","t","u","b","e",".","c","o","m","/">> }
VideoIds == { <<"a">>, <<"d","Q","w","4">>, <<"x","-","_","9">> }
TrailChars == { "?", "&", "/", "=", "t", "#" }

SeqsUpTo(S, n) == UNION { [1..k -> S] : k \in 0..n }

Trails == SeqsUpTo(TrailChars, MaxTrail)

InitUrl ==
    /\ u_id \in VideoIds
    /\ u_shape \in ShapeParts \cup OtherParts
    /\ u_trail \in Trails
    /\ \E sch \in SchemeParts : u_url = sch \o u_shape \o u_id \o u_trail
    /\ u_result = Pending

ExtractVideoId ==
    /\ u_result = Pending
    /\ u_result' = Returned(extract_video_id(u_url))
    /\ UNCHANGED <<u_url, u_shape, u_id, u_trail>>

IdleUrl == u_url = <<>> /\ u_shape = <<>> /\ u_id = <<>> /\ u_trail = <<>> /\ u_result = Pending

\* ------------------------------------------------------------------------
\* YouTubeProcessor._construct_transcript_text
\* ------------------------------------------------------------------------

\* the string of the two punctuation tests; "U+2026" stands for the one
\* character HORIZONTAL ELLIPSIS
TranscriptPunct == { ".", "!", "?", "U+2026", ",", ":", ";" }

RECURSIVE LStrip(_)
LStrip(s) == IF s # <<>> /\ IsSpace(Head(s)) THEN LStrip(Tail(s)) ELSE s

RECURSIVE RStrip(_)
RStrip(s) ==
    IF s # <<>> /\ IsSpace(s[Len(s)]) THEN RStrip(SubSeq(s, 1, Len(s) - 1)) ELSE s

\* str.strip()
Strip(s) == RStrip(LStrip(s))

\* sorted(subtitle_data, key=lambda x: x['start']): Python's sort is stable, so an
\* item goes after every item already placed whose start is not greater
RECURSIVE InsertByStart(_, _)
InsertByStart(sorted, item) ==
    IF sorted = <<>> THEN <<item>>
    ELSE IF item.start < sorted[Len(sorted)].start
         THEN Append(InsertByStart(SubSeq(sorted, 1, Len(sorted) - 1), item), sorted[Len(sorted)])
         ELSE Append(sorted, item)

RECURSIVE SortedByStart(_)
SortedByStart(data) ==
    IF data = <<>> THEN <<>>
    ELSE InsertByStart(SortedByStart(SubSeq(data, 1, Len(data) - 1)), data[Len(data)])

\* the test that decides whether ' ' is appended to item i of sorted_items
AddsSpace(sorted_items, i, text) ==
    /\ ~(text[Len(text)] \in TranscriptPunct)
    /\ i < Len(sorted_items)
    /\ sorted_items[i + 1].text # <<>>
    /\ ~(sorted_items[i + 1].text[1] \in TranscriptPunct)

\* the body of the for loop: the part item i contributes (nothing when it is
\* empty after strip())
TranscriptPart(sorted_items, i) ==
    LET text == Strip(sorted_items[i].text)
    IN IF text = <<>> THEN <<>>
       ELSE IF AddsSpace(sorted_items, i, text) THEN Append(text, " ") ELSE text

RECURSIVE JoinParts(_, _)
JoinParts(sorted_items, i) ==
    IF i > Len(sorted_items) THEN <<>>
    ELSE TranscriptPart(sorted_items, i) \o JoinParts(sorted_items, i + 1)

construct_transcript_text(subtitle_data) ==
    IF subtitle_data = <<>> THEN <<>>
    ELSE JoinParts(SortedByStart(subtitle_data), 1)

\* ---- the fragment lists the model feeds to the assembler ----------------

MaxFrags == 3
MaxFragLen == 2
MaxStart == 1

FragChars == { "a", ".", " " }
FragTexts == SeqsUpTo(FragChars, MaxFragLen)
Fragments == [text : FragTexts, start : 0..MaxStart]

InitAsm ==
    /\ a_input \in SeqsUpTo(Fragments, MaxFrags)
    /\ a_output = Pending

ConstructTranscriptText ==
    /\ a_output = Pending
    /\ a_output' = Returned(construct_transcript_text(a_input))
    /\ UNCHANGED a_input

IdleAsm == a_input = <<>> /\ a_output = Pending

\* ------------------------------------------------------------------------
\* Splitting: re.split(r'(?<=[.!?])\s+', text), str.split(), slicing
\* ------------------------------------------------------------------------

\* the class [.!?] of the lookbehind
SentenceEnd == { ".", "!", "?" }

\* the first position from i on that holds no whitespace (Len + 1 if none)
RECURSIVE SkipSpaces(_, _)
SkipSpaces(text, i) ==
    IF i <= Len(text) /\ IsSpace(text[i]) THEN SkipSpaces(text, i + 1) ELSE i

\* re.split(r'(?<=[.!?])\s+', text) from position i on, cur being the piece read
\* so far: a separator is a whole run of whitespace right after . ! or ?
RECURSIVE SplitFrom(_, _, _)
SplitFrom(text, i, cur) ==
    IF i > Len(text) THEN <<cur>>
    ELSE IF IsSpace(text[i]) /\ i > 1 /\ text[i - 1] \in SentenceEnd
         THEN <<cur>> \o SplitFrom(text, SkipSpaces(text, i), <<>>)
         ELSE SplitFrom(text, i + 1, Append(cur, text[i]))

SplitSentences(text) == SplitFrom(text, 1, <<>>)

\* str.split(): the maximal runs of non-whitespace characters
RECURSIVE WordsFrom(_, _, _)
WordsFrom(text, i, cur) ==
    IF i > Len(text) THEN (IF cur = <<>> THEN <<>> ELSE <<cur>>)
    ELSE IF IsSpace(text[i])
         THEN (IF cur = <<>> THEN <<>> ELSE <<cur>>) \o WordsFrom(text, i + 1, <<>>)
         ELSE WordsFrom(text, i + 1, Append(cur, text[i]))

SplitWords(text) == WordsFrom(text, 1, <<>>)

\* [s[i:i+n] for i in range(0, len(s), n)]
RECURSIVE Slices(_, _)
Slices(s, n) == IF s = <<>> THEN <<>> ELSE <<Take(s, n)>> \o Slices(Drop(s, n), n)

\* ------------------------------------------------------------------------
\* YouTubeProcessor.chunk_text
\* ------------------------------------------------------------------------

\* mutant of ChunkTextExceeds: the separating space is not counted
ChunkTextExceedsNoSeparator(current, piece, max_chunk_size) ==
    Len(current) + Len(piece) > max_chunk_size /\ current # <<>>

\* the packing test of both loops of chunk_text: the separating space is counted
ChunkTextExceeds(current, piece, max_chunk_size) ==
    Len(current) + Len(piece) + 1 > max_chunk_size /\ current # <<>>

\* mutant of ChunkTextPack: a full chunk is replaced by the next piece without
\* being appended to the list
RECURSIVE ChunkTextPackLosesChunk(_, _, _, _, _)
ChunkTextPackLosesChunk(pieces, i, chunks, current, max_chunk_size) ==
    IF i > Len(pieces)
    THEN (IF current # <<>> THEN Append(chunks, current) ELSE chunks)
    ELSE IF ChunkTextExceeds(current, pieces[i], max_chunk_size)
         THEN ChunkTextPackLosesChunk(pieces, i + 1, chunks, pieces[i], max_chunk_size)
         ELSE ChunkTextPackLosesChunk(pieces, i + 1, chunks,
                  (IF current # <<>> THEN Append(current, " ") ELSE current) \o pieces[i],
                  max_chunk_size)

\* one pass of the greedy loop of chunk_text over pieces[i..], chunks being the
\* list built so far and current the chunk being filled
RECURSIVE ChunkTextPack(_, _, _, _, _)
ChunkTextPack(pieces, i, chunks, current, max_chunk_size) ==
    IF i > Len(pieces)
    THEN (IF current # <<>> THEN Append(chunks, current) ELSE chunks)
    ELSE IF ChunkTextExceeds(current, pieces[i], max_chunk_size)
         THEN ChunkTextPack(pieces, i + 1, Append(chunks, current), pieces[i], max_chunk_size)
         ELSE ChunkTextPack(pieces, i + 1, chunks,
                  (IF current # <<>> THEN Append(current, " ") ELSE current) \o pieces[i],
                  max_chunk_size)

\* the second loop: a chunk within the limit is kept, a longer one is split by words
RECURSIVE ChunkTextFinal(_, _, _)
ChunkTextFinal(chunks, i, max_chunk_size) ==
    IF i > Len(chunks) THEN <<>>
    ELSE (IF Len(chunks[i]) <= max_chunk_size
          THEN <<chunks[i]>>
          ELSE ChunkTextPack(SplitWords(chunks[i]), 1, <<>>, <<>>, max_chunk_size))
         \o ChunkTextFinal(chunks, i + 1, max_chunk_size)

\* mutant of chunk_text: a text within the limit is split and packed like a
\* longer one
ChunkTextNoShortcut(text, max_chunk_size) ==
    ChunkTextFinal(
        ChunkTextPack(SplitSentences(text), 1, <<>>, <<>>, max_chunk_size),
        1, max_chunk_size)

chunk_text(text, max_chunk_size) ==
    IF Len(text) <= max_chunk_size THEN <<text>>
    ELSE ChunkTextFinal(
             ChunkTextPack(SplitSentences(text), 1, <<>>, <<>>, max_chunk_size),
             1, max_chunk_size)

\* ------------------------------------------------------------------------
\* Summarizer
\* ------------------------------------------------------------------------

\* The chunk sizes of _get_optimal_chunk_size are 12000, 8000 and 4000
\* characters; the model keeps their order and scales them down to sizes the
\* texts of the model can exceed.
ChunkSizeBase == 3
ChunkSize16k == 4
ChunkSizeLarge == 5

\* model names, by what _get_optimal_chunk_size looks for in them
Models == { "gpt-4-turbo", "gpt-3.5-turbo-16k", "gpt-4o" }
IsLargeContext(model) == model \in { "gpt-4-turbo", "gpt-4-1106-preview" }
Has16k(model) == model \in { "gpt-3.5-turbo-16k" }

get_optimal_chunk_size(model) ==
    IF IsLargeContext(model) THEN ChunkSizeLarge
    ELSE IF Has16k(model) THEN ChunkSize16k
    ELSE ChunkSizeBase

\* processed_sentences: a sentence longer than chunk_size is cut into slices
RECURSIVE ProcessedSentences(_, _, _)
ProcessedSentences(sentences, i, chunk_size) ==
    IF i > Len(sentences) THEN <<>>
    ELSE (IF Len(sentences[i]) > chunk_size
          THEN Slices(sentences[i], chunk_size)
          ELSE <<sentences[i]>>)
         \o ProcessedSentences(sentences, i + 1, chunk_size)

\* the packing test of _split_text_into_chunks
SplitExceeds(current_chunk, sentence, chunk_size) ==
    Len(current_chunk) + Len(sentence) > chunk_size /\ current_chunk # <<>>

RECURSIVE SplitPack(_, _, _, _, _)
SplitPack(pieces, i, chunks, current_chunk, chunk_size) ==
    IF i > Len(pieces)
    THEN (IF current_chunk # <<>> THEN Append(chunks, Strip(current_chunk)) ELSE chunks)
    ELSE IF SplitExceeds(current_chunk, pieces[i], chunk_size)
         THEN SplitPack(pieces, i + 1, Append(chunks, Strip(current_chunk)), pieces[i], chunk_size)
         ELSE SplitPack(pieces, i + 1, chunks,
                  (IF current_chunk # <<>> THEN Append(current_chunk, " ") ELSE current_chunk)
                      \o pieces[i],
                  chunk_size)

\* max(1, len // chunk_size + (1 if len % chunk_size > 0 else 0))
ExpectedChunks(text, chunk_size) ==
    LET n == (Len(text) \div chunk_size) + (IF Len(text) % chunk_size > 0 THEN 1 ELSE 0)
    IN IF n < 1 THEN 1 ELSE n

split_text_into_chunks(text, chunk_size) ==
    LET chunks == SplitPack(ProcessedSentences(SplitSentences(text), 1, chunk_size),
                            1, <<>>, <<>>, chunk_size)
    IN \* len(chunks) < expected_chunks * 0.5 and len(text) > chunk_size
       IF 2 * Len(chunks) < ExpectedChunks(text, chunk_size) /\ Len(text) > chunk_size
       THEN Slices(text, chunk_size)
       ELSE chunks

\* the chunks _split_text_and_summarize works on: the forced split replaces a
\* single chunk when len(text) > chunk_size * 1.5
ChunksToSummarize(text, model) ==
    LET chunk_size == get_optimal_chunk_size(model)
        chunks == split_text_into_chunks(text, chunk_size)
    IN IF Len(chunks) = 1 /\ 2 * Len(text) > 3 * chunk_size
       THEN Slices(text, chunk_size)
       ELSE chunks

\* the chunks of the for loop that reach _summarize_single_chunk: an empty or
\* whitespace-only chunk is skipped
RECURSIVE NonEmptyChunks(_, _)
NonEmptyChunks(chunks, i) ==
    IF i > Len(chunks) THEN <<>>
    ELSE (IF Strip(chunks[i]) = <<>> THEN <<>> ELSE <<chunks[i]>>)
         \o NonEmptyChunks(chunks, i + 1)

\* the text arguments of the _summarize_single_chunk calls of one summarize()
HandedToModel(text, model) ==
    IF text = <<>> THEN <<>>
    ELSE IF Len(text) > get_optimal_chunk_size(model)
         THEN LET chunks == ChunksToSummarize(text, model)
              IN IF Len(chunks) = 1 THEN <<chunks[1]>> ELSE NonEmptyChunks(chunks, 1)
         ELSE <<text>>

\* ---- the texts the model feeds to the splitters -------------------------

MaxTextLen == 7
MaxChunkSize == 4

TextChars == { "a", ".", " " }
Texts == SeqsUpTo(TextChars, MaxTextLen)

InitChunk ==
    /\ c_text \in Texts
    /\ c_size \in 1..MaxChunkSize
    /\ c_model = ""
    /\ c_yt = Pending
    /\ c_split = Pending
    /\ c_handed = Pending

ChunkText ==
    /\ c_yt = Pending
    /\ c_yt' = Returned(chunk_text(c_text, c_size))
    /\ UNCHANGED <<c_text, c_size, c_model, c_split, c_handed>>

SplitTextIntoChunks ==
    /\ c_yt # Pending
    /\ c_split = Pending
    /\ c_split' = Returned(split_text_into_chunks(c_text, c_size))
    /\ UNCHANGED <<c_text, c_size, c_model, c_yt, c_handed>>

\* Summarizer.summarize(text, title, model), as far as the texts it passes on
Summarize ==
    /\ c_split # Pending
    /\ c_handed = Pending
    /\ \E model \in Models :
          /\ c_model' = model
          /\ c_handed' = Returned(HandedToModel(c_text, model))
    /\ UNCHANGED <<c_text, c_size, c_yt, c_split>>

IdleChunk ==
    /\ c_text = <<>>
    /\ c_size = 1
    /\ c_model = ""
    /\ c_yt = Pending
    /\ c_split = Pending
    /\ c_handed = Pending

\* ------------------------------------------------------------------------
\* Summarizer.summarize and its calls of the language model
\* ------------------------------------------------------------------------

\* sep.join(parts)
RECURSIVE Join(_, _)
Join(sep, parts) ==
    IF parts = <<>> THEN <<>>
    ELSE IF Len(parts) = 1 THEN parts[1]
    ELSE parts[1] \o sep \o Join(sep, Tail(parts))

BlankLine == <<"\n", "\n">>

\* the text summarize returns for an empty text (the message is in Russian:
\* the summary could not be made because the text is empty)
EmptyTextMessage == <<"N","e","t"," ","t","e","k","s","t","a",".">>

\* the text _summarize_single_chunk returns when the call raised: the message
\* "the summary could not be made: " followed by str(e)
FailedPrefix == <<"N","e"," ","u","d","a","l","o","s",":"," ">>
SummarizationFailed(e) == FailedPrefix \o e

\* str(e) of the exception of a failed call
ApiError == <<"a","p","i">>

\* response.choices[0].message.content of a call that succeeded
Replies == { <<"S">>, <<" ","T","\n">>, <<" ">> }

\* what one openai.ChatCompletion.create call does: it raises or it answers
ApiOutcomes ==
    { [ok |-> FALSE, content |-> ApiError] } \cup { [ok |-> TRUE, content |-> r] : r \in Replies }

\* mutant of SingleChunkResult: a failed call leaves an empty summary
SingleChunkResultHidesFailure(o) == IF o.ok THEN Strip(o.content) ELSE <<>>

\* the value _summarize_single_chunk returns for an outcome of its call
SingleChunkResult(o) == IF o.ok THEN Strip(o.content) ELSE SummarizationFailed(o.content)

\* "num_chunks <= 3": up to this many parts are joined without a combine call
MaxPartsWithoutCombine == 3

\* mutant of NeedsCombine: every run of several chunks ends in a combine call
NeedsCombineAlways(num_chunks) == num_chunks > 1

\* the else branch of "if num_chunks <= 3"
NeedsCombine(num_chunks) == num_chunks > MaxPartsWithoutCombine

\* mutant of FitsOneCall: a text exactly as long as the chunk size is split
FitsOneCallStrict(text, model) == Len(text) < get_optimal_chunk_size(model)

\* the else branch of "if len(text) > chunk_size" of summarize
FitsOneCall(text, model) == ~(Len(text) > get_optimal_chunk_size(model))

\* summarize ends by returning a text; no path of it raises, every exception
\* of a call being caught where the call is made
ReturnsText(t) == Returned([kind |-> "text", text |-> t])

\* the record of one openai.ChatCompletion.create call: what it was for, the
\* text put in its prompt, and how it ended
ApiCall(kind, text, o) == [kind |-> kind, text |-> text, ok |-> o.ok, content |-> o.content]

PartDigits == <<"1", "2", "3", "4", "5", "6", "7", "8", "9">>

\* f"Часть {i+1}:\n{summary}" ("Part i:")
LabelledPart(i, summary) == <<"P","a","r","t"," ", PartDigits[i], ":", "\n">> \o summary

\* mutant of CombinedText: the parts are labelled but put in reverse order
CombinedTextReversed(summaries) ==
    Join(BlankLine, [i \in 1..Len(summaries) |->
                        LabelledPart(i, summaries[Len(summaries) + 1 - i])])

\* combined_text of _combine_summaries
CombinedText(summaries) ==
    Join(BlankLine, [i \in 1..Len(summaries) |-> LabelledPart(i, summaries[i])])

\* final_text of the branch num_chunks <= 3: the first summary (or "") followed
\* by "\n\n" + summary for each of the others
JoinedParts(summaries) == Join(BlankLine, summaries)

\* mutant of IsBlankChunk: no chunk is skipped
IsBlankChunkNever(chunk) == FALSE

\* "if not chunk or len(chunk.strip()) == 0": the chunk is skipped
IsBlankChunk(chunk) == chunk = <<>> \/ Len(Strip(chunk)) = 0

\* mutant of CombineResult: the part summaries are lost when the call raises
CombineResultLosesParts(o, summaries) == IF o.ok THEN Strip(o.content) ELSE <<>>

\* the value _combine_summaries returns for an outcome of its call
CombineResult(o, summaries) == IF o.ok THEN Strip(o.content) ELSE Join(BlankLine, summaries)

\* ---- the transcripts the model feeds to summarize ------------------------

MaxSumBlocks == 4

\* the pieces the transcripts are built from: a letter, a space, a sentence
\* end, and a word and a run of spaces as long as the smallest chunk size
SumBlocks == { <<"a">>, <<" ">>, <<".", " ">>, <<"a","a","a">>, <<" "," "," ">> }

RECURSIVE FlatText(_)
FlatText(blocks) == IF blocks = <<>> THEN <<>> ELSE Head(blocks) \o FlatText(Tail(blocks))

SumTexts == { FlatText(b) : b \in SeqsUpTo(SumBlocks, MaxSumBlocks) }

InitSum ==
    /\ s_pc = "summarize"
    /\ s_text \in SumTexts
    /\ s_model \in Models
    /\ s_chunks = <<>>
    /\ s_i = 1
    /\ s_summaries = <<>>
    /\ s_calls = <<>>
    /\ s_result = Pending

\* summarize up to its first call: an empty text is answered at once, a text
\* longer than the chunk size goes to _split_text_and_summarize, which splits it
\* and treats a single chunk like a short text
SummarizeStart ==
    /\ s_pc = "summarize"
    /\ IF s_text = <<>>
       THEN /\ s_pc' = "done"
            /\ s_result' = ReturnsText(EmptyTextMessage)
            /\ UNCHANGED s_chunks
       ELSE IF FitsOneCall(s_text, s_model)
            THEN /\ s_chunks' = <<s_text>>
                 /\ s_pc' = "single"
                 /\ UNCHANGED s_result
            ELSE /\ s_chunks' = ChunksToSummarize(s_text, s_model)
                 /\ s_pc' = IF Len(s_chunks') = 1 THEN "single" ELSE "parts"
                 /\ UNCHANGED s_result
    /\ UNCHANGED <<s_text, s_model, s_i, s_summaries, s_calls>>

\* "return self._summarize_single_chunk(...)" of summarize (line 161) and of
\* _split_text_and_summarize (line 303)
SummarizeSingleChunk ==
    /\ s_pc = "single"
    /\ \E o \in ApiOutcomes :
          /\ s_calls' = Append(s_calls, ApiCall("chunk", s_chunks[1], o))
          /\ s_result' = ReturnsText(SingleChunkResult(o))
    /\ s_pc' = "done"
    /\ UNCHANGED <<s_text, s_model, s_chunks, s_i, s_summaries>>

\* one pass of the for loop over the chunks, and what follows the loop: up to
\* three chunks are joined, more go to _combine_summaries
SummarizePart ==
    /\ s_pc = "parts"
    /\ IF s_i > Len(s_chunks)
       THEN /\ IF NeedsCombine(Len(s_chunks))
               THEN s_pc' = "combine" /\ UNCHANGED s_result
               ELSE s_pc' = "done" /\ s_result' = ReturnsText(JoinedParts(s_summaries))
            /\ UNCHANGED <<s_i, s_summaries, s_calls>>
       ELSE /\ s_i' = s_i + 1
            /\ UNCHANGED <<s_pc, s_result>>
            /\ IF IsBlankChunk(s_chunks[s_i])
               THEN UNCHANGED <<s_summaries, s_calls>>
               ELSE \E o \in ApiOutcomes :
                       /\ s_calls' = Append(s_calls, ApiCall("chunk", s_chunks[s_i], o))
                       /\ s_summaries' = Append(s_summaries, SingleChunkResult(o))
    /\ UNCHANGED <<s_text, s_model, s_chunks>>

\* _combine_summaries: one call with all the part summaries in its prompt; when
\* it raises the summaries are joined as they are
CombineSummaries ==
    /\ s_pc = "combine"
    /\ \E o \in ApiOutcomes :
          /\ s_calls' = Append(s_calls, ApiCall("combine", CombinedText(s_summaries), o))
          /\ s_result' = ReturnsText(CombineResult(o, s_summaries))
    /\ s_pc' = "done"
    /\ UNCHANGED <<s_text, s_model, s_chunks, s_i, s_summaries>>

IdleSum ==
    /\ s_pc = "idle"
    /\ s_text = <<>>
    /\ s_model = ""
    /\ s_chunks = <<>>
    /\ s_i = 1
    /\ s_summaries = <<>>
    /\ s_calls = <<>>
    /\ s_result = Pending

\* ------------------------------------------------------------------------
\* User and the handlers of TelegramBot that read or change the user's model
\* ------------------------------------------------------------------------

\* the value None of an Optional[str] field
NoModel == "None"

\* UNLIMITED_REQUESTS of config/settings.py
UNLIMITED_REQUESTS == -1

\* most requests a user of the model is granted, and most runs it records
MaxRequests == 2
MaxRuns == 2

\* User.has_unlimited_requests
has_unlimited_requests(u) == u.remaining_requests = UNLIMITED_REQUESTS \/ u.is_admin

\* User.has_access
has_access(u) ==
    u.is_admin \/ (u.is_approved /\ (has_unlimited_requests(u) \/ u.remaining_requests > 0))

\* User.get_effective_model
get_effective_model(u) == IF u.forced_model # NoModel THEN u.forced_model ELSE u.model

\* User.can_change_model
can_change_model(u) == IF u.is_admin THEN TRUE ELSE ~u.is_model_locked

\* mutant of use_request: the counter of a limited user is lowered without
\* looking at it
use_request_unchecked(u) ==
    IF has_unlimited_requests(u) THEN u
    ELSE [u EXCEPT !.remaining_requests = u.remaining_requests - 1]

\* User.use_request, as far as it changes the user
use_request(u) ==
    IF has_unlimited_requests(u) \/ u.remaining_requests <= 0 THEN u
    ELSE [u EXCEPT !.remaining_requests = u.remaining_requests - 1]

\* what User.use_request returns
use_request_returns(u) ==
    IF has_unlimited_requests(u) THEN TRUE
    ELSE IF u.remaining_requests <= 0 THEN FALSE
    ELSE TRUE

\* User.grant_access(requests)
grant_access(u, requests) ==
    [u EXCEPT !.is_approved = TRUE, !.remaining_requests = requests]

\* User.revoke_access
revoke_access(u) == [u EXCEPT !.is_approved = FALSE, !.remaining_requests = 0]

\* "model_name = user.model or self.summarizer.model" of process_youtube_link
ModelForRun(u, default_model) == IF u.model # NoModel THEN u.model ELSE default_model

\* a user as get_or_create_user or an earlier grant left it: no model chosen,
\* no forced model; the admin is approved
InitUser ==
    /\ user \in { u \in [ is_admin : BOOLEAN, is_approved : BOOLEAN,
                          model : { NoModel }, forced_model : { NoModel },
                          is_model_locked : { FALSE },
                          languages : { <<"ru", "en">> },
                          remaining_requests : { UNLIMITED_REQUESTS } \cup 0..MaxRequests ] :
                    u.is_admin => u.is_approved }
    /\ summarizer_model \in Models
    /\ handler = ""
    /\ runs = <<>>

\* User.set_forced_model(model, locked), the operation of an admin on the user
SetForcedModel ==
    /\ \E model \in Models \cup { NoModel }, locked \in BOOLEAN :
          user' = [user EXCEPT !.forced_model = model, !.is_model_locked = locked]
    /\ handler' = "set_forced_model"
    /\ UNCHANGED <<summarizer_model, runs>>

\* TelegramBot.handle_set_model: the callback "set_model:<name>" of the user
HandleSetModel ==
    /\ \E model_name \in Models : user' = [user EXCEPT !.model = model_name]
    /\ handler' = "handle_set_model"
    /\ UNCHANGED <<summarizer_model, runs>>

\* TelegramBot.handle_settings_action for "settings:reset"
HandleSettingsReset ==
    /\ user' = [user EXCEPT !.model = NoModel, !.languages = <<"ru", "en">>]
    /\ handler' = "handle_settings_action"
    /\ UNCHANGED <<summarizer_model, runs>>

\* TelegramBot.process_youtube_link: without access nothing is done; otherwise
\* a request is used and, when process_video gave a transcript, summarize is
\* called with model_name
ProcessYoutubeLink ==
    /\ Len(runs) < MaxRuns
    /\ handler' = "process_youtube_link"
    /\ IF ~has_access(user)
       THEN UNCHANGED <<user, runs>>
       ELSE /\ user' = IF ~user.is_admin /\ ~has_unlimited_requests(user)
                       THEN use_request(user) ELSE user
            /\ \E got_transcript \in BOOLEAN :
                  IF got_transcript
                  THEN runs' = Append(runs, [ model |-> ModelForRun(user, summarizer_model),
                                              forced_model |-> user.forced_model ])
                  ELSE UNCHANGED runs
    /\ UNCHANGED summarizer_model

IdleUser ==
    /\ user = [ is_admin |-> FALSE, is_approved |-> FALSE, model |-> NoModel,
                forced_model |-> NoModel, is_model_locked |-> FALSE,
                languages |-> <<"ru", "en">>, remaining_requests |-> 0 ]
    /\ summarizer_model = ""
    /\ handler = ""
    /\ runs = <<>>

\* ------------------------------------------------------------------------
\* YouTubeProcessor.get_subtitles and process_video
\* ------------------------------------------------------------------------

\* the minimum length of a transcript: len(subtitle_text.strip()) >= 10
MinTranscriptLen == 10

MaxTracks == 2

\* _validate_subtitle_data for the list a fetch returns: not empty, and the
\* first item is a dict with a 'text' key
validate_subtitle_data(data) ==
    /\ data # <<>>
    /\ "text" \in DOMAIN data[1]

\* _construct_transcript_text reads x['start'] of every item when it sorts and
\* item['text'] of every item when it joins: an item without one of them raises
\* KeyError, which the try around the fetch catches like a failed fetch
ConstructRaises(data) ==
    \E i \in 1..Len(data) : ~({ "text", "start" } \subseteq DOMAIN data[i])

\* the test after each fetch: the data is valid and the text built from it is
\* not empty and at least MinTranscriptLen long after strip()
Accepted(data) ==
    /\ validate_subtitle_data(data)
    /\ ~ConstructRaises(data)
    /\ LET subtitle_text == construct_transcript_text(data)
       IN subtitle_text # <<>> /\ Len(Strip(subtitle_text)) >= MinTranscriptLen

\* mutant of AcceptedText: any text that is not empty is taken
AcceptedTextOfAnyLength(subtitle_text) == subtitle_text # <<>>

\* the same test on the text _parse_vtt_content gives the external tool
AcceptedText(subtitle_text) ==
    subtitle_text # <<>> /\ Len(Strip(subtitle_text)) >= MinTranscriptLen

\* ---- the environment: what the transcript source can answer -------------

ShortText == <<"h","i">>
HelloText == <<"h","e","l","l","o">>
WorldText == <<"w","o","r","l","d",".">>

\* the lists a fetch can return: empty, too short, a transcript delivered out
\* of start order, and lists whose first or second item lacks a field
SubtitleData == {
    <<>>,
    << [text |-> ShortText, start |-> 0, duration |-> 1] >>,
    << [text |-> WorldText, start |-> 1, duration |-> 1],
       [text |-> HelloText, start |-> 0, duration |-> 1] >>,
    << [text |-> WorldText, start |-> 1, duration |-> 1], [text |-> HelloText, start |-> 0] >>,
    << [text |-> WorldText, start |-> 1, duration |-> 1], [start |-> 0, duration |-> 1] >>,
    << [start |-> 0, duration |-> 1], [text |-> WorldText, start |-> 1, duration |-> 1] >> }

\* a call of the transcript source either raises or returns data
CallOutcomes ==
    { [raised |-> TRUE, data |-> <<>>] } \cup { [raised |-> FALSE, data |-> d] : d \in SubtitleData }

\* what the external tool leaves after _parse_vtt_content: nothing, or a text
ExternalTexts == { <<>>, ShortText, construct_transcript_text(
    << [text |-> WorldText, start |-> 1], [text |-> HelloText, start |-> 0] >>) }

TrackLangs == { "ru", "en", "de" }
Tracks == [language_code : TrackLangs, is_generated : BOOLEAN]
TrackLists == SeqsUpTo(Tracks, MaxTracks)

LanguageLists == { <<"ru", "en">>, <<"en">> }

ValidUrl == LitWatch \o <<"a">>
InvalidUrl == <<"v","i","m","e","o",".","c","o","m","/","a">>

\* how get_subtitles ends
EndText(t) == Returned([kind |-> "text", text |-> t, error |-> ""])
EndNone == Returned([kind |-> "None", text |-> <<>>, error |-> ""])
EndRaise(e) == Returned([kind |-> "raise", text |-> <<>>, error |-> e])

Strategies == { "direct", "translated", "generated", "any", "any_translated", "ytdlp" }

InitFetch ==
    /\ pc = "process_video"
    /\ p_url \in { ValidUrl, InvalidUrl }
    /\ languages \in LanguageLists
    /\ listing = ""
    /\ tracks = <<>>
    /\ transcript = FALSE
    /\ li = 1
    /\ ti = 1
    /\ attempted = <<>>
    /\ fetches = <<>>
    /\ gs_result = Pending
    /\ pv_result = Pending

\* one pass of a strategy that calls the transcript source (find, translate,
\* fetch) or the external tool: the strategy, the preferred language and the
\* available transcript the pass is for, and the data or text that passed the
\* acceptance test, if one did
Call(strategy, language, track, accepted, data, text) ==
    [ strategy |-> strategy, language |-> language, track |-> track,
      accepted |-> accepted, data |-> data, text |-> text ]

Failed(strategy, language, track) == Call(strategy, language, track, FALSE, <<>>, <<>>)

Won(strategy, language, track, data) ==
    Call(strategy, language, track, TRUE, data, construct_transcript_text(data))

\* control reaches the code of a strategy: its loops start at their first item
Enter(strategy) ==
    /\ pc' = strategy
    /\ attempted' = Append(attempted, strategy)
    /\ li' = 1
    /\ ti' = 1

\* mutant of ReturnText: the transcript is kept as the result but the loop
\* goes on to its next language
ReturnTextAndContinue(subtitle_text) ==
    /\ gs_result' = EndText(subtitle_text)
    /\ li' = li + 1
    /\ UNCHANGED <<pc, ti, attempted>>

\* "return subtitle_text"
ReturnText(subtitle_text) ==
    /\ pc' = "get_subtitles_ended"
    /\ gs_result' = EndText(subtitle_text)
    /\ UNCHANGED <<li, ti, attempted>>

\* control reaches the end of the try block without a return: the function
\* ends without a return statement, which returns None
FallOffEnd ==
    /\ pc' = "get_subtitles_ended"
    /\ gs_result' = EndNone
    /\ UNCHANGED <<li, ti, attempted>>

\* which handler of the outer try takes an exception raised in its body
OuterHandler(exception) ==
    CASE exception = "TranscriptsDisabled" -> "raise_disabled"
      [] exception = "NoTranscriptFound" -> "raise_not_found"
      [] OTHER -> "ytdlp"

\* the handlers "except TranscriptsDisabled" and "except NoTranscriptFound" raise
\* an Exception of their own; "except Exception" runs the external tool
Handle(exception) ==
    CASE OuterHandler(exception) = "raise_disabled" ->
             /\ pc' = "get_subtitles_ended"
             /\ gs_result' = EndRaise("CaptionsDisabled")
             /\ UNCHANGED <<li, ti, attempted>>
      [] OuterHandler(exception) = "raise_not_found" ->
             /\ pc' = "get_subtitles_ended"
             /\ gs_result' = EndRaise("NoCaptionsFound")
             /\ UNCHANGED <<li, ti, attempted>>
      [] OTHER -> Enter("ytdlp") /\ UNCHANGED gs_result

\* the exception that leaves the inner try around list_transcripts: whatever
\* was raised is caught and replaced by a plain Exception
ListTranscriptsRaises(error) == "Exception"

\* process_video up to the call of get_subtitles: a url without a video id
\* gives (None, None)
ProcessVideo ==
    /\ pc = "process_video"
    /\ IF extract_video_id(p_url) = NoMatch
       THEN pc' = "done" /\ pv_result' = Returned([title |-> "None", transcript |-> <<>>])
       ELSE pc' = "list_transcripts" /\ UNCHANGED pv_result
    /\ UNCHANGED <<p_url, languages, listing, tracks, transcript, li, ti, attempted, fetches, gs_result>>

\* YouTubeTranscriptApi.list_transcripts(video_id)
ListTranscripts ==
    /\ pc = "list_transcripts"
    /\ \E outcome \in { "ok", "TranscriptsDisabled", "NoTranscriptFound", "error" } :
          /\ listing' = outcome
          /\ IF outcome = "ok"
             THEN /\ tracks' \in TrackLists
                  /\ Enter("direct")
                  /\ UNCHANGED gs_result
             ELSE /\ UNCHANGED tracks
                  /\ Handle(ListTranscriptsRaises(outcome))
    /\ UNCHANGED <<p_url, languages, transcript, fetches, pv_result>>

AvailableLanguages == { tracks[i].language_code : i \in 1..Len(tracks) }

\* Strategy 1, one pass of the loop over the preferred languages: a language
\* that is available is looked up (find_transcript may raise) and fetched
Direct ==
    /\ pc = "direct"
    /\ IF li > Len(languages)
       THEN Enter("translated") /\ UNCHANGED <<transcript, fetches, gs_result>>
       ELSE IF languages[li] \notin AvailableLanguages
            THEN li' = li + 1 /\ UNCHANGED <<pc, ti, attempted, transcript, fetches, gs_result>>
            ELSE \E find_raises \in BOOLEAN, fetch \in CallOutcomes :
                    IF find_raises
                    THEN /\ li' = li + 1
                         /\ fetches' = Append(fetches, Failed("direct", languages[li], 0))
                         /\ UNCHANGED <<pc, ti, attempted, transcript, gs_result>>
                    ELSE /\ transcript' = TRUE
                         /\ IF ~fetch.raised /\ Accepted(fetch.data)
                            THEN /\ ReturnText(construct_transcript_text(fetch.data))
                                 /\ fetches' = Append(fetches,
                                        Won("direct", languages[li], 0, fetch.data))
                            ELSE /\ li' = li + 1
                                 /\ fetches' = Append(fetches, Failed("direct", languages[li], 0))
                                 /\ UNCHANGED <<pc, ti, attempted, gs_result>>
    /\ UNCHANGED <<p_url, languages, listing, tracks, pv_result>>

\* the calls of one pass of a translate-and-fetch loop: translate may raise,
\* then the fetch of the translated transcript may
TranslateOutcomes ==
    { [translated |-> FALSE, raised |-> TRUE, data |-> <<>>] }
    \cup { [translated |-> TRUE, raised |-> o.raised, data |-> o.data] : o \in CallOutcomes }

TranslateWins(o) == o.translated /\ ~o.raised /\ Accepted(o.data)

\* Strategy 2, one pass of the inner loop: for each preferred language, each
\* available transcript is translated to it and fetched.  After the loops the
\* code of strategies 3 to 5 is guarded by "if not transcript".
Translated ==
    /\ pc = "translated"
    /\ IF li > Len(languages)
       THEN IF transcript
            THEN FallOffEnd /\ UNCHANGED fetches
            ELSE Enter("generated") /\ UNCHANGED <<fetches, gs_result>>
       ELSE IF ti > Len(tracks)
            THEN li' = li + 1 /\ ti' = 1 /\ UNCHANGED <<pc, attempted, fetches, gs_result>>
            ELSE \E out \in TranslateOutcomes :
                    IF TranslateWins(out)
                    THEN /\ ReturnText(construct_transcript_text(out.data))
                         /\ fetches' = Append(fetches,
                                Won("translated", languages[li], ti, out.data))
                    ELSE /\ ti' = ti + 1
                         /\ fetches' = Append(fetches, Failed("translated", languages[li], ti))
                         /\ UNCHANGED <<pc, li, attempted, gs_result>>
    /\ UNCHANGED <<p_url, languages, listing, tracks, transcript, pv_result>>

\* transcript_list.find_generated_transcript(languages): the generated transcript
\* of the first preferred language that has one; NoTranscriptFound when none has
HasGenerated ==
    \E i \in 1..Len(languages), k \in 1..Len(tracks) :
        tracks[k].is_generated /\ tracks[k].language_code = languages[i]

\* Strategy 3, entered only when transcript is None.  A generated transcript
\* that is found is assigned to transcript, so that a failed fetch of it skips
\* the "if not transcript" block that follows.
Generated ==
    /\ pc = "generated"
    /\ IF HasGenerated
       THEN /\ transcript' = TRUE
            /\ \E fetch \in CallOutcomes :
                  IF ~fetch.raised /\ Accepted(fetch.data)
                  THEN /\ ReturnText(construct_transcript_text(fetch.data))
                       /\ fetches' = Append(fetches, Won("generated", "", 0, fetch.data))
                  ELSE /\ FallOffEnd
                       /\ fetches' = Append(fetches, Failed("generated", "", 0))
       ELSE /\ UNCHANGED <<transcript, fetches>>
            /\ Enter("any")
            /\ UNCHANGED gs_result
    /\ UNCHANGED <<p_url, languages, listing, tracks, pv_result>>

\* Strategy 4, entered only when transcript is None, one pass of its loop: every
\* available transcript is fetched; without any transcript an Exception goes to
\* the outer handler
AnyAvailable ==
    /\ pc = "any"
    /\ IF tracks = <<>>
       THEN Handle("Exception") /\ UNCHANGED fetches
       ELSE IF ti > Len(tracks)
            THEN Enter("any_translated") /\ UNCHANGED <<fetches, gs_result>>
            ELSE \E fetch \in CallOutcomes :
                    IF ~fetch.raised /\ Accepted(fetch.data)
                    THEN /\ ReturnText(construct_transcript_text(fetch.data))
                         /\ fetches' = Append(fetches, Won("any", "", ti, fetch.data))
                    ELSE /\ ti' = ti + 1
                         /\ fetches' = Append(fetches, Failed("any", "", ti))
                         /\ UNCHANGED <<pc, li, attempted, gs_result>>
    /\ UNCHANGED <<p_url, languages, listing, tracks, transcript, pv_result>>

\* Strategy 5, one pass of its loop: every available transcript is translated to
\* 'en' and fetched; after the loop the try block ends
AnyTranslated ==
    /\ pc = "any_translated"
    /\ IF ti > Len(tracks)
       THEN FallOffEnd /\ UNCHANGED fetches
       ELSE \E out \in TranslateOutcomes :
               IF TranslateWins(out)
               THEN /\ ReturnText(construct_transcript_text(out.data))
                    /\ fetches' = Append(fetches, Won("any_translated", "en", ti, out.data))
               ELSE /\ ti' = ti + 1
                    /\ fetches' = Append(fetches, Failed("any_translated", "en", ti))
                    /\ UNCHANGED <<pc, li, attempted, gs_result>>
    /\ UNCHANGED <<p_url, languages, listing, tracks, transcript, pv_result>>

\* Strategy 6, the handler "except Exception": _get_subtitles_with_ytdlp returns
\* a text that passed the length test or None (its own errors included), and
\* None ends in the final raise
Ytdlp ==
    /\ pc = "ytdlp"
    /\ \E subtitle_text \in ExternalTexts :
          IF AcceptedText(subtitle_text)
          THEN /\ gs_result' = EndText(subtitle_text)
               /\ fetches' = Append(fetches, Call("ytdlp", "", 0, TRUE, <<>>, subtitle_text))
          ELSE /\ gs_result' = EndRaise("FetchError")
               /\ fetches' = Append(fetches, Failed("ytdlp", "", 0))
    /\ pc' = "get_subtitles_ended"
    /\ UNCHANGED <<p_url, languages, listing, tracks, transcript, li, ti, attempted, pv_result>>

\* process_video after get_subtitles: a transcript gives (title, transcript);
\* None and every exception give (None, None)
ProcessVideoReturn ==
    /\ pc = "get_subtitles_ended"
    /\ pc' = "done"
    /\ pv_result' =
          IF Value(gs_result).kind = "text" /\ Value(gs_result).text # <<>>
          THEN Returned([title |-> "title", transcript |-> Value(gs_result).text])
          ELSE Returned([title |-> "None", transcript |-> <<>>])
    /\ UNCHANGED <<p_url, languages, listing, tracks, transcript, li, ti, attempted, fetches, gs_result>>

IdleFetch ==
    /\ pc = "idle"
    /\ p_url = <<>>
    /\ languages = <<>>
    /\ listing = ""
    /\ tracks = <<>>
    /\ transcript = FALSE
    /\ li = 1
    /\ ti = 1
    /\ attempted = <<>>
    /\ fetches = <<>>
    /\ gs_result = Pending
    /\ pv_result = Pending

\* ------------------------------------------------------------------------
\* Specifications
\* ------------------------------------------------------------------------
\* The quota counter of a User object: models/user.py
\* ------------------------------------------------------------------------

\* DEFAULT_USER_REQUESTS of config/settings.py
DEFAULT_USER_REQUESTS == 1

\* most calls made on the User object
MaxCalls == 3

\* the values of the requests argument of grant_access: the buttons of the
\* admin carry -1 and positive numbers, callback data typed by hand any integer
GrantValues == (UNLIMITED_REQUESTS - 1)..MaxRequests

\* User(user_id): a new user of get_or_create_user, or the admin of _ensure_admin
NewUser(admin) ==
    [ is_admin |-> admin, is_approved |-> admin, remaining_requests |-> DEFAULT_USER_REQUESTS ]

InitCounter ==
    /\ q_user \in { NewUser(admin) : admin \in BOOLEAN }
    /\ q_calls = <<>>

\* the entry of q_calls for a call that turned the user into after
Called(method, requests, after, returned) ==
    [ method |-> method, requests |-> requests, before |-> q_user.remaining_requests,
      after |-> after.remaining_requests, returned |-> returned ]

\* User.use_request
UseRequest ==
    /\ Len(q_calls) < MaxCalls
    /\ q_user' = use_request(q_user)
    /\ q_calls' = Append(q_calls, Called("use_request", 0, use_request(q_user),
                                         use_request_returns(q_user)))

\* User.grant_access(requests)
GrantAccess ==
    /\ Len(q_calls) < MaxCalls
    /\ \E requests \in GrantValues :
          /\ q_user' = grant_access(q_user, requests)
          /\ q_calls' = Append(q_calls, Called("grant_access", requests,
                                               grant_access(q_user, requests), TRUE))

\* User.revoke_access
RevokeAccess ==
    /\ Len(q_calls) < MaxCalls
    /\ q_user' = revoke_access(q_user)
    /\ q_calls' = Append(q_calls, Called("revoke_access", 0, revoke_access(q_user), TRUE))

IdleCounter ==
    /\ q_user = NewUser(FALSE)
    /\ q_calls = <<>>

\* ------------------------------------------------------------------------
\* Access and quota under concurrent handlers: bot/telegram_bot.py and
\* models/user_manager.py.  aiogram runs every update as a task of its own,
\* so an invocation of process_youtube_link is a sequence of steps, one per
\* stretch of code between two awaits, and the steps of different invocations
\* interleave.  A handler holds the User object of UserManager.users itself,
\* so what it reads and writes is the entry of users.
\* ------------------------------------------------------------------------

\* ADMIN_USER_ID of config/settings.py, taken from the environment
ADMIN_USER_ID == 1

\* the user ids messages and callbacks come from or name: the admin and one other
UserIds == { ADMIN_USER_ID, ADMIN_USER_ID + 1 }

\* the users other than the admin
Others == UserIds \ { ADMIN_USER_ID }

\* the invocations of process_youtube_link of the model: one more than the
\* requests of a new user
MaxTasks == DEFAULT_USER_REQUESTS + 1

\* UserManager.get_or_create_user, as far as it changes UserManager.users
get_or_create_user(us, user_id) ==
    IF user_id \in DOMAIN us THEN us
    ELSE us @@ (user_id :> NewUser(user_id = ADMIN_USER_ID))

\* the requests an admin grants: unlimited or a positive number, as on the
\* buttons of create_admin_notification_keyboard and create_user_management_keyboard
ButtonGrants == { UNLIMITED_REQUESTS } \cup 1..MaxRequests

\* mutant of MayManageAccess: the sender's role is not looked at
MayManageAccessAnyone(u) == TRUE

\* "if not user.is_admin: ... return" of handle_grant_access,
\* handle_reject_access and handle_revoke_access
MayManageAccess(u) == u.is_admin

\* the state after __init__ with no user_data.json: _ensure_admin created the admin
InitAccess ==
    /\ users = (ADMIN_USER_ID :> NewUser(TRUE))
    /\ tasks = <<>>
    /\ last = 0
    /\ quota = [ u \in Others |-> DEFAULT_USER_REQUESTS ]
    /\ started = [ u \in Others |-> 0 ]

\* callback_handler with data "request_access": handle_request_access and
\* UserManager.request_access
HandleRequestAccess ==
    \E sender \in UserIds :
        /\ users' = [get_or_create_user(users, sender) EXCEPT ![sender].is_approved = FALSE]
        /\ last' = sender
        /\ UNCHANGED <<tasks, quota, started>>

\* callback_handler with data "grant_access:<target>:<requests>":
\* handle_grant_access and UserManager.grant_access
HandleGrantAccess ==
    \E sender \in UserIds, target \in UserIds, requests \in ButtonGrants :
        LET known == get_or_create_user(users, sender)
        IN /\ last' = sender
           /\ IF MayManageAccess(known[sender]) /\ target \in DOMAIN known
              THEN /\ users' = [known EXCEPT ![target] = grant_access(known[target], requests)]
                   /\ quota' = [ u \in Others |-> IF u = target THEN requests ELSE quota[u] ]
                   /\ started' = [ u \in Others |-> IF u = target THEN 0 ELSE started[u] ]
              ELSE /\ users' = known
                   /\ UNCHANGED <<quota, started>>
           /\ UNCHANGED tasks

\* what handle_reject_access and handle_revoke_access do to the users
Revoke(sender, target) ==
    LET known == get_or_create_user(users, sender)
    IN /\ last' = sender
       /\ IF MayManageAccess(known[sender]) /\ target \in DOMAIN known
          THEN /\ users' = [known EXCEPT ![target] = revoke_access(known[target])]
               /\ quota' = [ u \in Others |-> IF u = target THEN 0 ELSE quota[u] ]
               /\ started' = [ u \in Others |-> IF u = target THEN 0 ELSE started[u] ]
          ELSE /\ users' = known
               /\ UNCHANGED <<quota, started>>
       /\ UNCHANGED tasks

\* callback_handler with data "reject_access:<target>": handle_reject_access
\* and UserManager.revoke_access
HandleRejectAccess ==
    \E sender \in UserIds, target \in UserIds : Revoke(sender, target)

\* callback_handler with data "revoke_access:<target>": handle_revoke_access
\* and UserManager.revoke_access
HandleRevokeAccess ==
    \E sender \in UserIds, target \in UserIds : Revoke(sender, target)

\* an invocation of process_youtube_link for a user, at a step
Task(user_id, at, outcome) == [ user |-> user_id, pc |-> at, outcome |-> outcome ]

\* process_youtube_link up to its first await: get_or_create_user and the
\* has_access test; a sender without access is answered and the handler
\* returns, any other is sent the message that the video is being analysed
ReceiveLink ==
    /\ Len(tasks) < MaxTasks
    /\ \E sender \in UserIds :
          LET known == get_or_create_user(users, sender)
          IN /\ users' = known
             /\ last' = sender
             /\ tasks' = Append(tasks,
                                IF has_access(known[sender])
                                THEN Task(sender, "answering", "")
                                ELSE Task(sender, "done", "rejected"))
    /\ UNCHANGED <<quota, started>>

\* process_youtube_link after "processing_msg = await message.answer(...)":
\* when the send raised the handler ends; otherwise the try block is entered,
\* use_request is called for a user who is neither admin nor unlimited, its
\* result is not looked at, the user is saved and the processing begins
UseRequestAndProceed ==
    \E t \in 1..Len(tasks), sent \in BOOLEAN :
        LET u == tasks[t].user
            limited == ~users[u].is_admin /\ ~has_unlimited_requests(users[u])
        IN /\ tasks[t].pc = "answering"
           /\ last' = u
           /\ IF ~sent
              THEN /\ tasks' = [tasks EXCEPT ![t] = Task(u, "done", "send_failed")]
                   /\ UNCHANGED <<users, started>>
              ELSE /\ users' = IF limited THEN [users EXCEPT ![u] = use_request(users[u])]
                               ELSE users
                   /\ tasks' = [tasks EXCEPT ![t] = Task(u, "processing", "")]
                   /\ started' = [ v \in Others |-> IF v = u THEN started[v] + 1
                                                   ELSE started[v] ]
           /\ UNCHANGED quota

\* the ways the rest of process_youtube_link ends: process_video gave no
\* transcript and the error response was sent, or a step raised and the except
\* branch answered; "await self.summarizer.summarize(...)" awaits the string
\* that the synchronous summarize returned, which raises TypeError, so that a
\* run with a transcript ends in the except branch as well
LinkOutcomes == { "no_transcript", "error" }

\* process_youtube_link from process_video to its end; nothing gives a used
\* request back
FinishLink ==
    \E t \in 1..Len(tasks), outcome \in LinkOutcomes :
        /\ tasks[t].pc = "processing"
        /\ tasks' = [tasks EXCEPT ![t].pc = "done", ![t].outcome = outcome]
        /\ last' = tasks[t].user
        /\ UNCHANGED <<users, quota, started>>

IdleAccess ==
    /\ users = (ADMIN_USER_ID :> NewUser(TRUE))
    /\ tasks = <<>>
    /\ last = 0
    /\ quota = [ u \in Others |-> DEFAULT_USER_REQUESTS ]
    /\ started = [ u \in Others |-> 0 ]

\* ------------------------------------------------------------------------
\* Delivery of a summary in messages: the end of process_youtube_link in
\* bot/telegram_bot.py (aiogram) and in bot.py (telebot)
\* ------------------------------------------------------------------------

\* MAX_MESSAGE_LENGTH, 4096 in config/settings.py and bot.py, scaled down
MAX_MESSAGE_LENGTH == 16

\* the 50 characters bot.py leaves free in a message, scaled down
ChunkMargin == 4

\* the title of the video after the clean-up
CleanTitle == <<"T">>

\* f"<clapper> {hbold(clean_title)}" of bot/telegram_bot.py; "#" stands for the
\* clapper-board emoji, one character for len()
TitleLineAiogram == <<"#", " ", "<", "b", ">">> \o CleanTitle \o <<"<", "/", "b", ">">>

\* f"<clapper> *{clean_title}*" of bot.py
TitleLineTelebot == <<"#", " ", "*">> \o CleanTitle \o <<"*">>

\* text.split("\n\n") from position i on, cur being the piece read so far
RECURSIVE ParagraphsFrom(_, _, _)
ParagraphsFrom(text, i, cur) ==
    IF i > Len(text) THEN <<cur>>
    ELSE IF OccursAt(text, BlankLine, i)
         THEN <<cur>> \o ParagraphsFrom(text, i + 2, <<>>)
         ELSE ParagraphsFrom(text, i + 1, Append(cur, text[i]))

SplitParagraphs(text) == ParagraphsFrom(text, 1, <<>>)

\* the loop over paragraphs of bot/telegram_bot.py and "Add the last chunk"
RECURSIVE PackParagraphs(_, _, _, _)
PackParagraphs(paragraphs, i, chunks, current_chunk) ==
    IF i > Len(paragraphs)
    THEN (IF current_chunk # <<>> THEN Append(chunks, current_chunk) ELSE chunks)
    ELSE IF Len(current_chunk) + Len(paragraphs[i]) + 4 > MAX_MESSAGE_LENGTH
            /\ current_chunk # <<>>
         THEN PackParagraphs(paragraphs, i + 1, Append(chunks, current_chunk), paragraphs[i])
         ELSE PackParagraphs(paragraphs, i + 1, chunks,
                  IF current_chunk # <<>> THEN current_chunk \o BlankLine \o paragraphs[i]
                  ELSE paragraphs[i])

\* the messages bot/telegram_bot.py sends for a summary: result_text when it
\* fits, otherwise the title line and then the chunks
MessagesAiogram(clean_summary) ==
    LET result_text == TitleLineAiogram \o BlankLine \o clean_summary
        chunks == PackParagraphs(SplitParagraphs(clean_summary), 1, <<>>, <<>>)
    IN IF Len(result_text) <= MAX_MESSAGE_LENGTH THEN <<result_text>>
       ELSE <<TitleLineAiogram>>
               \o (IF chunks = <<>> THEN Slices(clean_summary, MAX_MESSAGE_LENGTH) ELSE chunks)

\* the loop over the sentences of a long paragraph of bot.py; sub_chunk keeps
\* its value when the slices of a long sentence are appended
RECURSIVE PackSentences(_, _, _, _, _)
PackSentences(sentences, i, chunks, sub_chunk, max_chunk_size) ==
    IF i > Len(sentences)
    THEN (IF sub_chunk # <<>> THEN Append(chunks, sub_chunk) ELSE chunks)
    ELSE IF Len(sub_chunk) + Len(sentences[i]) + 2 <= max_chunk_size
         THEN PackSentences(sentences, i + 1, chunks,
                  (IF sub_chunk # <<>> THEN sub_chunk \o <<" ">> \o sentences[i]
                   ELSE sentences[i]),
                  max_chunk_size)
         ELSE LET flushed == IF sub_chunk # <<>> THEN Append(chunks, sub_chunk) ELSE chunks
              IN IF Len(sentences[i]) > max_chunk_size
                 THEN PackSentences(sentences, i + 1,
                          flushed \o Slices(sentences[i], max_chunk_size),
                          sub_chunk, max_chunk_size)
                 ELSE PackSentences(sentences, i + 1, flushed, sentences[i], max_chunk_size)

\* the loop over paragraphs of bot.py and "the last chunk"; current_chunk keeps
\* its value when a long paragraph is split by sentences
RECURSIVE PackParagraphsTelebot(_, _, _, _, _)
PackParagraphsTelebot(paragraphs, i, chunks, current_chunk, max_chunk_size) ==
    IF i > Len(paragraphs)
    THEN (IF current_chunk # <<>> THEN Append(chunks, current_chunk) ELSE chunks)
    ELSE IF Len(current_chunk) + Len(paragraphs[i]) + 4 <= max_chunk_size
         THEN PackParagraphsTelebot(paragraphs, i + 1, chunks,
                  (IF current_chunk # <<>> THEN current_chunk \o BlankLine \o paragraphs[i]
                   ELSE paragraphs[i]),
                  max_chunk_size)
         ELSE LET flushed == IF current_chunk # <<>> THEN Append(chunks, current_chunk)
                             ELSE chunks
              IN IF Len(paragraphs[i]) > max_chunk_size
                 THEN PackParagraphsTelebot(paragraphs, i + 1,
                          PackSentences(SplitSentences(paragraphs[i]), 1, flushed, <<>>,
                                        max_chunk_size),
                          current_chunk, max_chunk_size)
                 ELSE PackParagraphsTelebot(paragraphs, i + 1, flushed, paragraphs[i],
                                            max_chunk_size)

\* the messages bot.py sends for a summary
MessagesTelebot(clean_summary) ==
    LET result_text == TitleLineTelebot \o BlankLine \o clean_summary
        max_chunk_size == MAX_MESSAGE_LENGTH - ChunkMargin
        chunks == PackParagraphsTelebot(SplitParagraphs(clean_summary), 1, <<>>, <<>>,
                                        max_chunk_size)
    IN IF Len(result_text) <= MAX_MESSAGE_LENGTH THEN <<result_text>>
       ELSE <<TitleLineTelebot>>
               \o (IF chunks = <<>> THEN Slices(clean_summary, max_chunk_size) ELSE chunks)

\* the summaries the model delivers: up to MaxPageBlocks of these pieces
MaxPageBlocks == 4
PageBlocks == { <<"a">>, <<"a", ".", " ">>, <<"\n", "\n">>,
                <<"a", "a", "a", "a", "a", "a", "a">> }

PageTexts == { FlatText(bs) : bs \in SeqsUpTo(PageBlocks, MaxPageBlocks) }

InitPage ==
    /\ m_summary \in PageTexts
    /\ m_aiogram = Pending
    /\ m_telebot = Pending

\* process_youtube_link of bot/telegram_bot.py from "Send result" on
SendSummaryAiogram ==
    /\ m_aiogram = Pending
    /\ m_aiogram' = Returned(MessagesAiogram(m_summary))
    /\ UNCHANGED <<m_summary, m_telebot>>

\* process_youtube_link of bot.py from the sending of the result on
SendSummaryTelebot ==
    /\ m_telebot = Pending
    /\ m_telebot' = Returned(MessagesTelebot(m_summary))
    /\ UNCHANGED <<m_summary, m_aiogram>>

IdlePage ==
    /\ m_summary = <<>>
    /\ m_aiogram = Pending
    /\ m_telebot = Pending

\* ------------------------------------------------------------------------
\* The response cache of AIAgent: ai_agent.py.  The MD5 digest is taken to be
\* injective, so the cache key is the string that is hashed.
\* ------------------------------------------------------------------------

\* AIAgent._generate_cache_key: f"{text}|{title}|{model}"
generate_cache_key(text, title, model) == text \o <<"|">> \o title \o <<"|">> \o model

\* "\n".join(summaries), the text combine_summaries makes its cache key from
CombinedKeyText(summaries) == Join(<<"\n">>, summaries)

\* most calls of the two methods
MaxAgentCalls == 3

\* the arguments of the calls of the model
AgentModel == <<"m">>
AgentTitles == { <<"c">>, <<"b", "|", "c">> }
AgentTexts == { <<"a">>, <<"a", "|", "b">>, <<"a", "\n", "b">> }
AgentSummaryLists == { << <<"a">>, <<"b">> >>, << <<"a", "\n", "b">> >> }

\* the requests: a call of summarize_text(text, title, model) or of
\* combine_summaries(summaries, title, model)
AgentRequests ==
    { [ method |-> "summarize_text", input |-> <<text>>, title |-> title, model |-> AgentModel ] :
          text \in AgentTexts, title \in AgentTitles }
    \cup
    { [ method |-> "combine_summaries", input |-> summaries, title |-> title,
        model |-> AgentModel ] : summaries \in AgentSummaryLists, title \in AgentTitles }

\* the cache key of a request
RequestKey(r) ==
    IF r.method = "summarize_text"
    THEN generate_cache_key(r.input[1], r.title, r.model)
    ELSE generate_cache_key(CombinedKeyText(r.input), r.title, r.model)

\* what chat.completions.create answers after strip(), for either method
AgentReplies == { <<"x">>, <<"y">> }

\* _get_cached_response(cache_key) gave a response that "if cached_response:" takes
CacheHit(cache, key) == key \in DOMAIN cache /\ cache[key] # <<>>

InitCache ==
    /\ k_cache = << >>
    /\ k_calls = <<>>

\* summarize_text or combine_summaries, whole: the cached response is returned
\* when there is one; otherwise the language model is called, and its answer
\* is cached and returned, or its error raised
AgentCall ==
    /\ Len(k_calls) < MaxAgentCalls
    /\ \E r \in AgentRequests :
          LET key == RequestKey(r)
          IN IF CacheHit(k_cache, key)
             THEN /\ k_calls' = Append(k_calls, [ request |-> r, key |-> key, hit |-> TRUE,
                                                  ok |-> TRUE, response |-> k_cache[key] ])
                  /\ UNCHANGED k_cache
             ELSE \E ok \in BOOLEAN, reply \in AgentReplies :
                     /\ k_calls' = Append(k_calls, [ request |-> r, key |-> key, hit |-> FALSE,
                                                     ok |-> ok,
                                                     response |-> IF ok THEN reply ELSE <<>> ])
                     /\ k_cache' = IF ok
                                   THEN [ k \in DOMAIN k_cache \cup { key } |->
                                             IF k = key THEN reply ELSE k_cache[k] ]
                                   ELSE k_cache

IdleCache ==
    /\ k_cache = << >>
    /\ k_calls = <<>>

\* ------------------------------------------------------------------------

vars == <<fetchVars, urlVars, asmVars, chunkVars, sumVars, userVars, counterVars, accessVars,
          pageVars, cacheVars>>

\* process_video and the cascade of get_subtitles
Start == InitFetch /\ IdleUrl /\ IdleAsm /\ IdleChunk /\ IdleSum /\ IdleUser
    /\ IdleCounter /\ IdleAccess /\ IdlePage /\ IdleCache
Next ==
    \/ ProcessVideo /\ UNCHANGED <<urlVars, asmVars, chunkVars, sumVars, userVars, counterVars, accessVars,
                 pageVars, cacheVars>>
    \/ ListTranscripts /\ UNCHANGED <<urlVars, asmVars, chunkVars, sumVars, userVars, counterVars, accessVars,
                 pageVars, cacheVars>>
    \/ Direct /\ UNCHANGED <<urlVars, asmVars, chunkVars, sumVars, userVars, counterVars, accessVars,
                 pageVars, cacheVars>>
    \/ Translated /\ UNCHANGED <<urlVars, asmVars, chunkVars, sumVars, userVars, counterVars, accessVars,
                 pageVars, cacheVars>>
    \/ Generated /\ UNCHANGED <<urlVars, asmVars, chunkVars, sumVars, userVars, counterVars, accessVars,
                 pageVars, cacheVars>>
    \/ AnyAvailable /\ UNCHANGED <<urlVars, asmVars, chunkVars, sumVars, userVars, counterVars, accessVars,
                 pageVars, cacheVars>>
    \/ AnyTranslated /\ UNCHANGED <<urlVars, asmVars, chunkVars, sumVars, userVars, counterVars, accessVars,
                 pageVars, cacheVars>>
    \/ Ytdlp /\ UNCHANGED <<urlVars, asmVars, chunkVars, sumVars, userVars, counterVars, accessVars,
                 pageVars, cacheVars>>
    \/ ProcessVideoReturn /\ UNCHANGED <<urlVars, asmVars, chunkVars, sumVars, userVars, counterVars, accessVars,
                 pageVars, cacheVars>>
Spec == Start /\ [][Next]_vars

\* extract_video_id applied to the generated urls
StartUrl == IdleFetch /\ InitUrl /\ IdleAsm /\ IdleChunk /\ IdleSum /\ IdleUser
    /\ IdleCounter /\ IdleAccess /\ IdlePage /\ IdleCache
NextUrl == ExtractVideoId /\ UNCHANGED <<fetchVars, asmVars, chunkVars, sumVars, userVars, counterVars, accessVars,
                 pageVars, cacheVars>>
SpecUrl == StartUrl /\ [][NextUrl]_vars

\* _construct_transcript_text applied to the generated fragment lists
StartAsm == IdleFetch /\ IdleUrl /\ InitAsm /\ IdleChunk /\ IdleSum /\ IdleUser
    /\ IdleCounter /\ IdleAccess /\ IdlePage /\ IdleCache
NextAsm == ConstructTranscriptText /\ UNCHANGED <<fetchVars, urlVars, chunkVars, sumVars, userVars, counterVars, accessVars,
                 pageVars, cacheVars>>
SpecAsm == StartAsm /\ [][NextAsm]_vars

\* the splitters applied to the generated texts
StartChunk == IdleFetch /\ IdleUrl /\ IdleAsm /\ InitChunk /\ IdleSum /\ IdleUser
    /\ IdleCounter /\ IdleAccess /\ IdlePage /\ IdleCache
NextChunk ==
    \/ ChunkText /\ UNCHANGED <<fetchVars, urlVars, asmVars, sumVars, userVars, counterVars, accessVars,
                 pageVars, cacheVars>>
    \/ SplitTextIntoChunks /\ UNCHANGED <<fetchVars, urlVars, asmVars, sumVars, userVars, counterVars, accessVars,
                 pageVars, cacheVars>>
    \/ Summarize /\ UNCHANGED <<fetchVars, urlVars, asmVars, sumVars, userVars, counterVars, accessVars,
                 pageVars, cacheVars>>
SpecChunk == StartChunk /\ [][NextChunk]_vars

\* summarize applied to the generated transcripts, with every outcome of its
\* language-model calls
StartSum == IdleFetch /\ IdleUrl /\ IdleAsm /\ IdleChunk /\ InitSum /\ IdleUser
    /\ IdleCounter /\ IdleAccess /\ IdlePage /\ IdleCache
NextSum ==
    \/ SummarizeStart /\ UNCHANGED <<fetchVars, urlVars, asmVars, chunkVars, userVars, counterVars, accessVars,
                 pageVars, cacheVars>>
    \/ SummarizeSingleChunk /\ UNCHANGED <<fetchVars, urlVars, asmVars, chunkVars, userVars, counterVars, accessVars,
                 pageVars, cacheVars>>
    \/ SummarizePart /\ UNCHANGED <<fetchVars, urlVars, asmVars, chunkVars, userVars, counterVars, accessVars,
                 pageVars, cacheVars>>
    \/ CombineSummaries /\ UNCHANGED <<fetchVars, urlVars, asmVars, chunkVars, userVars, counterVars, accessVars,
                 pageVars, cacheVars>>
SpecSum == StartSum /\ [][NextSum]_vars

\* the handlers that read or change the model of one user
StartUser == IdleFetch /\ IdleUrl /\ IdleAsm /\ IdleChunk /\ IdleSum /\ InitUser
    /\ IdleCounter /\ IdleAccess /\ IdlePage /\ IdleCache
NextUser ==
    \/ SetForcedModel /\ UNCHANGED <<fetchVars, urlVars, asmVars, chunkVars, sumVars, counterVars, accessVars,
                 pageVars, cacheVars>>
    \/ HandleSetModel /\ UNCHANGED <<fetchVars, urlVars, asmVars, chunkVars, sumVars, counterVars, accessVars,
                 pageVars, cacheVars>>
    \/ HandleSettingsReset /\ UNCHANGED <<fetchVars, urlVars, asmVars, chunkVars, sumVars, counterVars, accessVars,
                 pageVars, cacheVars>>
    \/ ProcessYoutubeLink /\ UNCHANGED <<fetchVars, urlVars, asmVars, chunkVars, sumVars, counterVars, accessVars,
                 pageVars, cacheVars>>
SpecUser == StartUser /\ [][NextUser]_vars

\* the calls on one User object
StartCounter == IdleFetch /\ IdleUrl /\ IdleAsm /\ IdleChunk /\ IdleSum /\ IdleUser
    /\ InitCounter /\ IdleAccess /\ IdlePage /\ IdleCache
NextCounter ==
    \/ UseRequest /\ UNCHANGED <<fetchVars, urlVars, asmVars, chunkVars, sumVars, userVars,
                                 accessVars, pageVars, cacheVars>>
    \/ GrantAccess /\ UNCHANGED <<fetchVars, urlVars, asmVars, chunkVars, sumVars, userVars,
                                  accessVars, pageVars, cacheVars>>
    \/ RevokeAccess /\ UNCHANGED <<fetchVars, urlVars, asmVars, chunkVars, sumVars, userVars,
                                   accessVars, pageVars, cacheVars>>
SpecCounter == StartCounter /\ [][NextCounter]_vars

\* the handlers that read or change the access of the users, interleaved
StartAccess == IdleFetch /\ IdleUrl /\ IdleAsm /\ IdleChunk /\ IdleSum /\ IdleUser
    /\ IdleCounter /\ InitAccess /\ IdlePage /\ IdleCache
NextAccess ==
    \/ HandleRequestAccess /\ UNCHANGED <<fetchVars, urlVars, asmVars, chunkVars, sumVars,
                                          userVars, counterVars, pageVars, cacheVars>>
    \/ HandleGrantAccess /\ UNCHANGED <<fetchVars, urlVars, asmVars, chunkVars, sumVars,
                                        userVars, counterVars, pageVars, cacheVars>>
    \/ HandleRejectAccess /\ UNCHANGED <<fetchVars, urlVars, asmVars, chunkVars, sumVars,
                                         userVars, counterVars, pageVars, cacheVars>>
    \/ HandleRevokeAccess /\ UNCHANGED <<fetchVars, urlVars, asmVars, chunkVars, sumVars,
                                         userVars, counterVars, pageVars, cacheVars>>
    \/ ReceiveLink /\ UNCHANGED <<fetchVars, urlVars, asmVars, chunkVars, sumVars,
                                  userVars, counterVars, pageVars, cacheVars>>
    \/ UseRequestAndProceed /\ UNCHANGED <<fetchVars, urlVars, asmVars, chunkVars, sumVars,
                                           userVars, counterVars, pageVars, cacheVars>>
    \/ FinishLink /\ UNCHANGED <<fetchVars, urlVars, asmVars, chunkVars, sumVars,
                                 userVars, counterVars, pageVars, cacheVars>>
SpecAccess == StartAccess /\ [][NextAccess]_vars

\* the delivery of the generated summaries by either bot
StartPage == IdleFetch /\ IdleUrl /\ IdleAsm /\ IdleChunk /\ IdleSum /\ IdleUser
    /\ IdleCounter /\ IdleAccess /\ InitPage /\ IdleCache
NextPage ==
    \/ SendSummaryAiogram /\ UNCHANGED <<fetchVars, urlVars, asmVars, chunkVars, sumVars,
                                         userVars, counterVars, accessVars, cacheVars>>
    \/ SendSummaryTelebot /\ UNCHANGED <<fetchVars, urlVars, asmVars, chunkVars, sumVars,
                                         userVars, counterVars, accessVars, cacheVars>>
SpecPage == StartPage /\ [][NextPage]_vars

\* the calls of the two cached methods of AIAgent
StartCache == IdleFetch /\ IdleUrl /\ IdleAsm /\ IdleChunk /\ IdleSum /\ IdleUser
    /\ IdleCounter /\ IdleAccess /\ IdlePage /\ InitCache
NextCache == AgentCall /\ UNCHANGED <<fetchVars, urlVars, asmVars, chunkVars, sumVars,
                                      userVars, counterVars, accessVars, pageVars>>
SpecCache == StartCache /\ [][NextCache]_vars

\* ------------------------------------------------------------------------
\* Claims about the caption cascade (specification Spec)
\* ------------------------------------------------------------------------

WasAttempted(strategy) == \E i \in 1..Len(attempted) : attempted[i] = strategy

GetSubtitlesEnded == gs_result # Pending

\* C1: get_subtitles ends without a transcript only after each of the six
\* strategies (direct, translated, generated, any, any translated, external
\* tool) was attempted at least once.
C1_FailsOnlyAfterAllStrategies ==
    (GetSubtitlesEnded /\ Value(gs_result).kind # "text")
        => \A strategy \in Strategies : WasAttempted(strategy)

\* C2: every call of get_subtitles ends by returning a transcript or by raising;
\* it never completes normally without a transcript (None or an empty value).
C2_ReturnsTranscriptOrRaises ==
    GetSubtitlesEnded =>
        \/ Value(gs_result).kind = "raise"
        \/ Value(gs_result).kind = "text" /\ Value(gs_result).text # <<>>

\* what process_video returns for a url without a video id
NoneNone == [title |-> "None", transcript |-> <<>>]

\* C3: the failure kinds are distinguishable by the caller: disabled captions
\* are reported as CaptionsDisabled, a missing transcript as NoCaptionsFound,
\* FetchError only when all strategies failed, and none of these failures gives
\* the caller of process_video the outcome it gets for an unparsable url.
C3_FailureKindsDistinguishable ==
    pc = "done" /\ GetSubtitlesEnded =>
        /\ listing = "TranscriptsDisabled" => Value(gs_result).error = "CaptionsDisabled"
        /\ listing = "NoTranscriptFound" => Value(gs_result).error = "NoCaptionsFound"
        /\ Value(gs_result).error = "FetchError" =>
               \A strategy \in Strategies : WasAttempted(strategy)
        /\ Value(gs_result).kind = "raise" => Value(pv_result) # NoneNone

\* the strategies in the order of the code
StrategyOrder == << "direct", "translated", "generated", "any", "any_translated", "ytdlp" >>

Rank(strategy) == CHOOSE k \in 1..Len(StrategyOrder) : StrategyOrder[k] = strategy

EndedWithText == GetSubtitlesEnded /\ Value(gs_result).kind = "text"

\* C18: for every strategy except the last, an attempt that ends without a
\* validated transcript is followed by the attempt of the next strategy,
\* whatever the earlier strategies found.
C18_NextStrategyFollowsFailure ==
    \A i \in 1..Len(attempted) :
        Rank(attempted[i]) < Len(StrategyOrder) =>
            IF i < Len(attempted)
            THEN Rank(attempted[i + 1]) = Rank(attempted[i]) + 1
            ELSE GetSubtitlesEnded => EndedWithText

\* the position of a preferred language in the list
LanguageIndex(language) == CHOOSE k \in 1..Len(languages) : languages[k] = language

\* C19: the strategies are attempted in the fixed order; the pass that yields
\* a validated transcript is the last call get_subtitles makes and its
\* transcript is what get_subtitles returns; within the direct strategy the
\* preferred languages are tried in list order.
C19_FixedOrderSuccessTerminates ==
    /\ \A i, j \in 1..Len(attempted) :
          i < j => Rank(attempted[i]) < Rank(attempted[j])
    /\ \A i \in 1..Len(fetches) : WasAttempted(fetches[i].strategy)
    /\ \A i, j \in 1..Len(fetches) :
          i < j =>
             /\ Rank(fetches[i].strategy) <= Rank(fetches[j].strategy)
             /\ (fetches[i].strategy = "direct" /\ fetches[j].strategy = "direct")
                   => LanguageIndex(fetches[i].language) < LanguageIndex(fetches[j].language)
    /\ \A i \in 1..Len(fetches) :
          fetches[i].accepted =>
             /\ i = Len(fetches)
             /\ gs_result = EndText(fetches[i].text)
    /\ EndedWithText => (fetches # <<>> /\ fetches[Len(fetches)].accepted)

\* the first preferred language failed, a later pass won and ended the call
C19_Witness ==
    /\ EndedWithText
    /\ Len(fetches) >= 2
    /\ fetches[1].strategy = "direct" /\ ~fetches[1].accepted
    /\ fetches[2].strategy = "direct" /\ fetches[2].accepted

AcceptedFetches == SelectSeq(fetches, LAMBDA c : c.accepted /\ c.strategy # "ytdlp")

\* C20 as stated: a candidate is accepted only if its fragment list is not
\* empty, every fragment has text, start and duration, and the assembled text
\* has at least the minimum length after trimming; every transcript returned,
\* by whichever strategy, has trimmed length >= 10.
C20_AcceptedOnlyIfEveryFragmentValid ==
    /\ \A i \in 1..Len(AcceptedFetches) :
          /\ AcceptedFetches[i].data # <<>>
          /\ \A k \in 1..Len(AcceptedFetches[i].data) :
                { "text", "start", "duration" } \subseteq DOMAIN AcceptedFetches[i].data[k]
          /\ Len(Strip(AcceptedFetches[i].text)) >= MinTranscriptLen
    /\ EndedWithText => Len(Strip(Value(gs_result).text)) >= MinTranscriptLen

\* C20 amended: a candidate is accepted only if its fragment list is not
\* empty, every fragment has text and start (duration is not looked at), and
\* the assembled text has at least the minimum length after trimming; every
\* transcript returned, by whichever strategy, has trimmed length >= 10.
C20_AcceptedOnlyIfAssembledAndLongEnough ==
    /\ \A i \in 1..Len(AcceptedFetches) :
          /\ AcceptedFetches[i].data # <<>>
          /\ \A k \in 1..Len(AcceptedFetches[i].data) :
                { "text", "start" } \subseteq DOMAIN AcceptedFetches[i].data[k]
          /\ AcceptedFetches[i].text = construct_transcript_text(AcceptedFetches[i].data)
          /\ Len(Strip(AcceptedFetches[i].text)) >= MinTranscriptLen
    /\ EndedWithText => Len(Strip(Value(gs_result).text)) >= MinTranscriptLen

\* a list with a fragment without duration was accepted and returned
C20_Witness ==
    /\ EndedWithText
    /\ AcceptedFetches # <<>>
    /\ \E k \in 1..Len(AcceptedFetches[1].data) :
          "duration" \notin DOMAIN AcceptedFetches[1].data[k]

\* ------------------------------------------------------------------------
\* Claims about extract_video_id (specification SpecUrl)
\* ------------------------------------------------------------------------

\* a trailing query string or extra path segments: after watch?v=ID further
\* parameters follow with "&", after a path shape a query follows with "?" and a
\* path segment with "/"
IsTrailingPart(shape, trail) ==
    \/ trail = <<>>
    \/ shape = LitWatch /\ trail[1] = "&"
    \/ shape # LitWatch /\ trail[1] \in { "?", "/" }

\* C4: for each of the four url shapes, followed by any trailing query string or
\* extra path segments, extract_video_id returns exactly the video id.
C4_ExtractsExactlyTheId ==
    (u_result # Pending /\ u_shape \in ShapeParts /\ IsTrailingPart(u_shape, u_trail))
        => Value(u_result) = u_id

\* ------------------------------------------------------------------------
\* Claims about _construct_transcript_text (specification SpecAsm)
\* ------------------------------------------------------------------------

\* the fragments in ascending start order, fragments of equal start in delivery
\* order: the one permutation of the input that is ordered so
RefSorted(data) ==
    LET n == Len(data)
        perm == CHOOSE f \in [1..n -> 1..n] :
                    /\ \A i, j \in 1..n : i # j => f[i] # f[j]
                    /\ \A i, j \in 1..n : i < j =>
                          \/ data[f[i]].start < data[f[j]].start
                          \/ data[f[i]].start = data[f[j]].start /\ f[i] < f[j]
    IN [i \in 1..n |-> data[perm[i]]]

EndsWithPunct(t) == t # <<>> /\ t[Len(t)] \in TranscriptPunct
BeginsWithPunct(t) == t # <<>> /\ t[1] \in TranscriptPunct
BeginsWithWordChar(t) == t # <<>> /\ ~IsSpace(t[1]) /\ ~(t[1] \in TranscriptPunct)

\* parts[1] seps[1] parts[2] ... parts[n]
RECURSIVE Glued(_, _, _)
Glued(parts, seps, i) ==
    IF i > Len(parts) THEN <<>>
    ELSE parts[i] \o (IF i < Len(parts) THEN seps[i] ELSE <<>>) \o Glued(parts, seps, i + 1)

\* what may stand between two fragments
Gaps == { <<>>, <<" ">>, <<" ", " ">> }

\* the non-empty fragments in start order, each without its surrounding whitespace
NonEmptyFragments(data) ==
    LET stripped == [i \in 1..Len(data) |-> Strip(RefSorted(data)[i].text)]
    IN SelectSeq(stripped, LAMBDA t : t # <<>>)

\* C5: in the assembled text a fragment that does not end in terminal
\* punctuation is separated by whitespace from the next non-empty fragment that
\* starts with a word character, also across empty fragments between the two.
C5_WordsNeverRunTogether ==
    a_output # Pending =>
        LET kept == NonEmptyFragments(a_input)
        IN \E seps \in [1..(Len(kept) - 1) -> Gaps], tail \in Gaps :
              /\ Value(a_output) = Glued(kept, seps, 1) \o tail
              /\ \A i \in 1..(Len(kept) - 1) :
                    (~EndsWithPunct(kept[i]) /\ BeginsWithWordChar(kept[i + 1]))
                        => seps[i] # <<>>

\* the reference assembler: the text fields in start order, unchanged, with one
\* space between two consecutive fragments iff the first does not end in
\* punctuation and the next does not begin with it
RECURSIVE RefJoin(_, _)
RefJoin(sorted, i) ==
    IF i > Len(sorted) THEN <<>>
    ELSE sorted[i].text
         \o (IF i < Len(sorted) /\ ~EndsWithPunct(sorted[i].text)
                /\ ~BeginsWithPunct(sorted[i + 1].text)
             THEN <<" ">> ELSE <<>>)
         \o RefJoin(sorted, i + 1)

RefAssemble(data) == RefJoin(RefSorted(data), 1)

\* C6: _construct_transcript_text equals the reference assembler for every
\* fragment list.
C6_EqualsReferenceAssembler ==
    a_output # Pending => Value(a_output) = RefAssemble(a_input)

\* ------------------------------------------------------------------------
\* Claims about the splitters (specification SpecChunk)
\* ------------------------------------------------------------------------

HasNoSpace(s) == \A i \in 1..Len(s) : ~IsSpace(s[i])

\* w is one whitespace-delimited word of text: it occurs in it between
\* whitespace or the ends of the text
IsWordOf(w, text) ==
    /\ w # <<>>
    /\ HasNoSpace(w)
    /\ \E p \in 1..Len(text) :
          /\ OccursAt(text, w, p)
          /\ (p = 1 \/ IsSpace(text[p - 1]))
          /\ (p + Len(w) > Len(text) \/ IsSpace(text[p + Len(w)]))

\* C7: every chunk Summarizer hands to a language-model call is at most as long
\* as the chunk size of the selected model, unless it is one single word longer
\* than that size (the packing test counts the separator).
C7_HandedChunksWithinChunkSize ==
    c_handed # Pending =>
        \A i \in 1..Len(Value(c_handed)) :
            \/ Len(Value(c_handed)[i]) <= get_optimal_chunk_size(c_model)
            \/ Value(c_handed)[i] # <<>> /\ HasNoSpace(Value(c_handed)[i])

\* C8: each element of the list chunk_text returns has length <= max_chunk_size
\* or is exactly one whitespace-delimited word of the input that is longer.
C8_ChunkTextWithinSizeOrOneWord ==
    c_yt # Pending =>
        \A i \in 1..Len(Value(c_yt)) :
            \/ Len(Value(c_yt)[i]) <= c_size
            \/ Len(Value(c_yt)[i]) > c_size /\ IsWordOf(Value(c_yt)[i], c_text)

\* chunk_text returned several chunks, one of them a word longer than
\* max_chunk_size and one of them within it
C8_Witness ==
    /\ c_yt # Pending
    /\ \E i, j \in 1..Len(Value(c_yt)) :
          /\ Len(Value(c_yt)[i]) > c_size
          /\ Len(Value(c_yt)[j]) <= c_size

\* every word of every chunk is a whole word of the text
WordsAreWhole(chunks, text) ==
    \A i \in 1..Len(chunks) :
        \A k \in 1..Len(SplitWords(chunks[i])) : IsWordOf(SplitWords(chunks[i])[k], text)

\* C9: splitting never cuts inside a word: each whitespace-delimited word of
\* the input lies wholly inside one chunk, for the chunks produced for
\* summarization by Summarizer and by chunk_text.
C9_NeverCutsInsideAWord ==
    /\ c_yt # Pending => WordsAreWhole(Value(c_yt), c_text)
    /\ c_split # Pending => WordsAreWhole(Value(c_split), c_text)
    /\ c_handed # Pending => WordsAreWhole(Value(c_handed), c_text)

\* text is the chunks in order with nothing but whitespace before, between and
\* after them
RECURSIVE Rejoins(_, _)
Rejoins(chunks, text) ==
    IF chunks = <<>>
    THEN \A i \in 1..Len(text) : IsSpace(text[i])
    ELSE \E k \in 0..Len(text) :
            /\ \A i \in 1..k : IsSpace(text[i])
            /\ Take(Drop(text, k), Len(Head(chunks))) = Head(chunks)
            /\ Rejoins(Tail(chunks), Drop(text, k + Len(Head(chunks))))

\* C10 as stated: joining the chunks in order with the separators consumed at the
\* chunk boundaries put back reproduces the input text.
C10_RoundTripAtChunkBoundaries ==
    /\ c_yt # Pending => Rejoins(Value(c_yt), c_text)
    /\ c_split # Pending => Rejoins(Value(c_split), c_text)

RECURSIVE Flat(_)
Flat(seqs) == IF seqs = <<>> THEN <<>> ELSE Head(seqs) \o Flat(Tail(seqs))

NonSpace(s) == SelectSeq(s, LAMBDA c : ~IsSpace(c))

WordsOfChunks(chunks) == Flat([i \in 1..Len(chunks) |-> SplitWords(chunks[i])])

\* C10 amended: joining the chunks in order reproduces the input up to
\* whitespace: the characters other than whitespace are those of the input, in
\* order, none lost or duplicated, and chunk_text also keeps the sequence of
\* whitespace-delimited words.
C10_RoundTripUpToWhitespace ==
    /\ c_yt # Pending =>
          /\ NonSpace(Flat(Value(c_yt))) = NonSpace(c_text)
          /\ WordsOfChunks(Value(c_yt)) = SplitWords(c_text)
    /\ c_split # Pending => NonSpace(Flat(Value(c_split))) = NonSpace(c_text)

\* both splitters returned several chunks and a run of whitespace inside a
\* chunk of chunk_text was replaced by one space
C10_Witness ==
    /\ c_yt # Pending /\ Len(Value(c_yt)) >= 2
    /\ ~Rejoins(Value(c_yt), c_text)
    /\ c_split # Pending /\ Len(Value(c_split)) >= 2

\* C11 as stated: for every text with len(text) <= max_size both splitters
\* return exactly one chunk, equal to the text character for character.
C11_ShortTextIsOneEqualChunk ==
    Len(c_text) <= c_size =>
        /\ c_yt # Pending => Value(c_yt) = <<c_text>>
        /\ c_split # Pending => Value(c_split) = <<c_text>>

\* C11 amended: for len(text) <= max_size chunk_text returns exactly one chunk
\* equal to the text; _split_text_into_chunks returns no chunk for the empty
\* text and otherwise exactly one chunk, which has the words of the text in
\* order and no surrounding whitespace; and summarize hands the text itself,
\* unchanged, to the language model when it is not empty.
C11_ShortTextIsOneChunk ==
    /\ (c_yt # Pending /\ Len(c_text) <= c_size) => Value(c_yt) = <<c_text>>
    /\ (c_split # Pending /\ Len(c_text) <= c_size) =>
          IF c_text = <<>> THEN Value(c_split) = <<>>
          ELSE /\ Len(Value(c_split)) = 1
               /\ Strip(Value(c_split)[1]) = Value(c_split)[1]
               /\ SplitWords(Value(c_split)[1]) = SplitWords(c_text)
               /\ NonSpace(Value(c_split)[1]) = NonSpace(c_text)
    /\ (c_handed # Pending /\ c_text # <<>>
           /\ Len(c_text) <= get_optimal_chunk_size(c_model)) =>
          Value(c_handed) = <<c_text>>

\* a text within the limit that chunk_text returned as it is and
\* _split_text_into_chunks returned changed
C11_Witness ==
    /\ Len(c_text) <= c_size
    /\ c_text # <<>>
    /\ c_yt = Returned(<<c_text>>)
    /\ c_split # Pending
    /\ Value(c_split) # <<c_text>>

\* ------------------------------------------------------------------------
\* Claims about Summarizer.summarize (specification SpecSum)
\* ------------------------------------------------------------------------

SummarizeEnded == s_pc = "done"

\* the transcript is at most as long as the chunk budget of the selected model
WithinBudget == Len(s_text) <= get_optimal_chunk_size(s_model)

ChunkCalls == SelectSeq(s_calls, LAMBDA c : c.kind = "chunk")
CombineCalls == SelectSeq(s_calls, LAMBDA c : c.kind = "combine")
FailedChunkCalls == SelectSeq(s_calls, LAMBDA c : c.kind = "chunk" /\ ~c.ok)

\* exactly one call, carrying the full transcript, without chunking or combine
OneCallWithFullTranscript ==
    /\ Len(s_calls) = 1
    /\ s_calls[1].kind = "chunk"
    /\ s_calls[1].text = s_text
    /\ s_chunks = <<s_text>>

\* C12 as stated: for every transcript within the chunk budget of the selected
\* model summarize issues exactly one language-model call, carrying the full
\* transcript, without chunking or combine call, and returns that call's output.
C12_OneCallWithinBudget ==
    (SummarizeEnded /\ WithinBudget) =>
        /\ OneCallWithFullTranscript
        /\ s_calls[1].ok => Strip(Value(s_result).text) = Strip(s_calls[1].content)

\* C12 amended: for every non-empty transcript within the budget summarize
\* issues exactly one call, with the full transcript, and returns the content of
\* its answer without surrounding whitespace; for the empty transcript it
\* issues no call and returns a fixed message.
C12_OneCallForNonEmptyWithinBudget ==
    (SummarizeEnded /\ WithinBudget) =>
        IF s_text = <<>>
        THEN s_calls = <<>> /\ Value(s_result) = [kind |-> "text", text |-> EmptyTextMessage]
        ELSE /\ OneCallWithFullTranscript
             /\ s_calls[1].ok =>
                   Value(s_result) = [kind |-> "text", text |-> Strip(s_calls[1].content)]

\* a transcript exactly as long as the budget was summarized by one call that
\* answered
C12_Witness ==
    /\ SummarizeEnded
    /\ Len(s_text) = get_optimal_chunk_size(s_model)
    /\ Len(s_calls) = 1
    /\ s_calls[1].ok
    /\ s_calls[1].text = s_text

\* C13: in the single-pass path a failed language-model call is propagated to
\* the caller of summarize as an error, not as a normal text result, and the
\* call is not retried.
C13_SinglePassFailurePropagates ==
    (SummarizeEnded /\ WithinBudget /\ FailedChunkCalls # <<>>) =>
        /\ Value(s_result).kind = "raise"
        /\ Len(s_calls) = 1

\* the chunk calls are one per chunk that is not blank, in chunk order
OneCallPerNonBlankChunk ==
    [i \in 1..Len(ChunkCalls) |-> ChunkCalls[i].text] = NonEmptyChunks(s_chunks, 1)

\* one combine call, made after all the chunk calls
OneCombineCallAtTheEnd ==
    /\ Len(CombineCalls) = 1
    /\ s_calls[Len(s_calls)].kind = "combine"

\* C14 as stated: in the multi-pass path a run with N >= 2 chunks makes N chunk
\* calls and then exactly one combine call, N + 1 calls in all, and a run with
\* one chunk makes no combine call.
C14_OneCombineForTwoOrMoreChunks ==
    (SummarizeEnded /\ ~WithinBudget) =>
        IF Len(s_chunks) >= 2
        THEN /\ OneCombineCallAtTheEnd
             /\ Len(ChunkCalls) = Len(s_chunks)
             /\ Len(s_calls) = Len(s_chunks) + 1
        ELSE CombineCalls = <<>>

\* C14 amended: the number of combine calls depends only on the chunk count N:
\* for N >= 4 exactly one combine call is issued, after all the chunk calls, and
\* for N <= 3 none; the chunk calls are one per chunk that is not blank.
C14_OneCombineForFourOrMoreChunks ==
    (SummarizeEnded /\ ~WithinBudget) =>
        /\ OneCallPerNonBlankChunk
        /\ IF Len(s_chunks) > MaxPartsWithoutCombine
           THEN OneCombineCallAtTheEnd /\ Len(s_calls) = Len(ChunkCalls) + 1
           ELSE CombineCalls = <<>> /\ Len(s_calls) = Len(ChunkCalls)

\* a run of four or more chunks, none blank, ended after its combine call
C14_Witness ==
    /\ SummarizeEnded
    /\ Len(s_chunks) > MaxPartsWithoutCombine
    /\ Len(s_calls) = Len(s_chunks) + 1
    /\ s_calls[Len(s_calls)].kind = "combine"

Contains(text, part) == \E p \in 1..(Len(text) + 1) : OccursAt(text, part, p)

\* C15: when the call of one chunk of a multi-chunk run fails and the others
\* succeed, summarize does not raise, the other chunks are still summarized,
\* the combine step proceeds, and the final text contains a marker for the
\* failed chunk.
C15_FailedChunkIsMarked ==
    (SummarizeEnded /\ Len(s_chunks) >= 2 /\ Len(FailedChunkCalls) = 1) =>
        /\ Value(s_result).kind = "text"
        /\ OneCallPerNonBlankChunk
        /\ NeedsCombine(Len(s_chunks)) => OneCombineCallAtTheEnd
        /\ Contains(Value(s_result).text, FailedPrefix)

IsVisible(text) == \E i \in 1..Len(text) : ~IsSpace(text[i])

\* text holds the parts i.. in order from position from on, each but the first
\* preceded by a separator with a visible character
RECURSIVE MarkedFrom(_, _, _, _)
MarkedFrom(text, parts, i, from) ==
    IF i > Len(parts) THEN TRUE
    ELSE \E p \in from..(Len(text) + 1) :
            /\ OccursAt(text, parts[i], p)
            /\ i > 1 => IsVisible(SubSeq(text, from, p - 1))
            /\ MarkedFrom(text, parts, i + 1, p + Len(parts[i]))

CombineFailed == CombineCalls # <<>> /\ ~CombineCalls[1].ok

\* C16 as stated: if the combine call fails, summarize does not raise and
\* returns a non-empty text that contains every partial summary, in chunk
\* order, separated by visible section markers.
C16_CombineFailureKeepsMarkedParts ==
    (SummarizeEnded /\ CombineFailed) =>
        /\ Value(s_result).kind = "text"
        /\ Value(s_result).text # <<>>
        /\ MarkedFrom(Value(s_result).text, s_summaries, 1, 1)

\* C16 amended: if the combine call fails, summarize does not raise and returns
\* the partial summaries (one per chunk call, a failed call giving its failure
\* message), in chunk order, joined by blank lines without any marker; the text
\* is not empty when one of the partial summaries is not.
C16_CombineFailureJoinsParts ==
    (SummarizeEnded /\ CombineFailed) =>
        /\ Value(s_result).kind = "text"
        /\ s_summaries = [i \in 1..Len(ChunkCalls) |-> SingleChunkResult(ChunkCalls[i])]
        /\ Value(s_result).text = Join(BlankLine, s_summaries)
        /\ (\E i \in 1..Len(s_summaries) : s_summaries[i] # <<>>)
               => Value(s_result).text # <<>>

\* the combine call failed after four chunk calls, one of which had failed too
C16_Witness ==
    /\ SummarizeEnded
    /\ CombineFailed
    /\ Len(s_summaries) >= 4
    /\ Len(FailedChunkCalls) = 1
    /\ Value(s_result).text # <<>>

\* ceil(L / chunk_size) for the transcript and the budget of the selected model
CeilChunks == (Len(s_text) + get_optimal_chunk_size(s_model) - 1)
                  \div get_optimal_chunk_size(s_model)

\* C21 as stated: for every transcript longer than the chunk budget the number
\* of chunk-summarization calls equals ceil(L / chunk_size).
C21_ChunkCallsEqualCeiling ==
    (SummarizeEnded /\ ~WithinBudget) => Len(ChunkCalls) = CeilChunks

\* C21 amended: the number of chunk-summarization calls equals the number of
\* chunks of the splitter that are not blank; the splitter packs whole
\* sentences, so its chunk count can be smaller or larger than
\* ceil(L / chunk_size), but never less than half of it.
C21_ChunkCallsEqualNonBlankChunks ==
    (SummarizeEnded /\ ~WithinBudget) =>
        /\ Len(ChunkCalls) =
              Cardinality({ i \in 1..Len(s_chunks) : \E k \in 1..Len(s_chunks[i]) :
                                                         ~IsSpace(s_chunks[i][k]) })
        /\ 2 * Len(s_chunks) >= CeilChunks

\* a run whose number of chunk calls is smaller than ceil(L / chunk_size)
C21_Witness ==
    /\ SummarizeEnded
    /\ ~WithinBudget
    /\ Len(ChunkCalls) >= 2
    /\ Len(ChunkCalls) < CeilChunks

\* the loop over the chunks has ended
PartsDone == s_pc \in { "combine", "done" } /\ Len(s_chunks) >= 2

\* C22 as stated: in a multi-chunk run every chunk contributes exactly one
\* entry to the list of partial summaries, the summary returned for it or a
\* placeholder that names the chunk index and the failure, so that the list
\* has as many entries as there are chunks.
C22_OneEntryPerChunk ==
    PartsDone =>
        /\ Len(s_summaries) = Len(s_chunks)
        /\ \A i \in 1..Len(ChunkCalls) :
              ~ChunkCalls[i].ok =>
                 /\ Contains(s_summaries[i], <<PartDigits[i]>>)
                 /\ Contains(s_summaries[i], ChunkCalls[i].content)

\* C22 amended: every chunk that is not blank contributes exactly one entry, in
\* chunk order: the answer of its call without surrounding whitespace, or the
\* failure message followed by the error, which does not name the chunk index;
\* a blank chunk contributes no entry.
C22_OneEntryPerNonBlankChunk ==
    (s_pc \in { "parts", "combine", "done" } /\ Len(s_chunks) >= 2) =>
        /\ [i \in 1..Len(ChunkCalls) |-> ChunkCalls[i].text]
              = NonEmptyChunks(SubSeq(s_chunks, 1, s_i - 1), 1)
        /\ Len(s_summaries) = Len(ChunkCalls)
        /\ \A i \in 1..Len(ChunkCalls) :
              s_summaries[i] = IF ChunkCalls[i].ok
                               THEN Strip(ChunkCalls[i].content)
                               ELSE FailedPrefix \o ChunkCalls[i].content

\* the loop ended with a blank chunk skipped and a failed call among the others
C22_Witness ==
    /\ PartsDone
    /\ Len(s_summaries) < Len(s_chunks)
    /\ FailedChunkCalls # <<>>
    /\ Len(FailedChunkCalls) < Len(ChunkCalls)

\* C23 as stated: for every i, the entry at position i of the input of the
\* combine call, labelled part i, is the partial summary of chunk i of the
\* transcript.
C23_CombineInputByChunkIndex ==
    CombineCalls # <<>> =>
        /\ Len(ChunkCalls) = Len(s_chunks)
        /\ \A i \in 1..Len(ChunkCalls) : ChunkCalls[i].text = s_chunks[i]
        /\ CombineCalls[1].text =
              Join(BlankLine, [i \in 1..Len(ChunkCalls) |-> LabelledPart(i, s_summaries[i])])

\* the indices of the chunks that are not blank, in ascending order
RECURSIVE NonBlankIndices(_, _)
NonBlankIndices(chunks, i) ==
    IF i > Len(chunks) THEN <<>>
    ELSE (IF Strip(chunks[i]) = <<>> THEN <<>> ELSE <<i>>) \o NonBlankIndices(chunks, i + 1)

\* C23 amended: the input of the combine call holds the partial summaries in
\* chunk order: the entry at position k, labelled part k, is the partial
\* summary of the k-th chunk that is not blank, whatever the outcome of the
\* other chunks.
C23_CombineInputInChunkOrder ==
    CombineCalls # <<>> =>
        LET kept == NonBlankIndices(s_chunks, 1)
        IN /\ Len(ChunkCalls) = Len(kept)
           /\ \A k \in 1..Len(kept) : ChunkCalls[k].text = s_chunks[kept[k]]
           /\ CombineCalls[1].text =
                 Join(BlankLine,
                      [k \in 1..Len(kept) |->
                          <<"P","a","r","t"," ", PartDigits[k], ":", "\n">>
                              \o (IF ChunkCalls[k].ok THEN Strip(ChunkCalls[k].content)
                                  ELSE FailedPrefix \o ChunkCalls[k].content)])

\* a combine call was made after a blank chunk was skipped and a call failed
C23_Witness ==
    /\ CombineCalls # <<>>
    /\ Len(ChunkCalls) < Len(s_chunks)
    /\ Len(ChunkCalls) >= 2
    /\ ~ChunkCalls[1].ok /\ ChunkCalls[2].ok

\* ------------------------------------------------------------------------
\* Claims about the user's model (specification SpecUser)
\* ------------------------------------------------------------------------

\* C17: when an admin has set a forced model for a user, every summarization
\* run for that user uses the forced model whatever model the user selected,
\* and the set_model callback of a non-admin user whose model is locked does
\* not change the model used for their summaries.
C17_ForcedModelIsUsed ==
    /\ [](\A i \in 1..Len(runs) :
             runs[i].forced_model # NoModel => runs[i].model = get_effective_model(runs[i]))
    /\ [][(handler' = "handle_set_model" /\ ~can_change_model(user))
             => ModelForRun(user', summarizer_model') = ModelForRun(user, summarizer_model)]_vars

\* ------------------------------------------------------------------------
\* Claims about access and quota (specifications SpecAccess and SpecCounter)
\* ------------------------------------------------------------------------

\* C24: for a user who is not the admin and whose last grant gave a finite
\* number N of requests, at most N video-processing runs are started until an
\* admin grants more, however that user's link messages interleave; a message
\* handled when no request is left starts no processing.
C24_RunsWithinQuota ==
    \A u \in Others :
        (u \in DOMAIN users /\ quota[u] >= 0) => started[u] <= quota[u]

\* whether u is charged for a link: neither admin nor unlimited
Limited(u) == ~u.is_admin /\ ~has_unlimited_requests(u)

\* C25: a step taken for an update of a sender who is not an admin leaves
\* is_approved and remaining_requests of every other user as they were, also
\* when the callback data names that user; for the sender itself it neither
\* approves nor adds requests (it sets is_approved to False or uses one
\* request at most).
C25_OnlyAdminChangesAccess ==
    [][ (last' \in DOMAIN users' /\ ~users'[last'].is_admin) =>
           /\ \A u \in DOMAIN users \ { last' } :
                 /\ users'[u].is_approved = users[u].is_approved
                 /\ users'[u].remaining_requests = users[u].remaining_requests
           /\ last' \in DOMAIN users =>
                 /\ users'[last'].is_approved => users[last'].is_approved
                 /\ users'[last'].remaining_requests
                       \in { users[last'].remaining_requests,
                             users[last'].remaining_requests - 1 } ]_vars

\* a user who is not an admin, approved by the admin, sent the last update
\* while the admin's own record is as it was created
C25_Witness ==
    /\ last \in Others
    /\ last \in DOMAIN users
    /\ users[last].is_approved
    /\ users[ADMIN_USER_ID] = NewUser(TRUE)

\* C26: in every sequence of use_request, grant_access and revoke_access calls
\* on a user, use_request lowers remaining_requests by one or leaves it, and
\* never below 0; it leaves the counter of an unlimited user or an admin
\* unchanged; it returns False exactly when the user is limited and has no
\* request left; and the counter becomes -1 only in grant_access.
C26_CounterInvariant ==
    \A i \in 1..Len(q_calls) :
        LET c == q_calls[i]
            unlimited == c.before = UNLIMITED_REQUESTS \/ q_user.is_admin
        IN /\ c.method = "use_request" =>
                 /\ c.after \in { c.before, c.before - 1 }
                 /\ c.after < c.before => c.after >= 0
                 /\ unlimited => c.after = c.before
                 /\ (c.returned = FALSE) <=> (~unlimited /\ c.before <= 0)
           /\ (c.after = UNLIMITED_REQUESTS /\ c.before # UNLIMITED_REQUESTS)
                 => c.method = "grant_access"

\* a limited user used the last request and was then refused
C26_Witness ==
    /\ ~q_user.is_admin
    /\ Len(q_calls) >= 3
    /\ q_calls[2].method = "use_request" /\ q_calls[2].before = 1 /\ q_calls[2].after = 0
    /\ q_calls[2].returned
    /\ q_calls[3].method = "use_request" /\ q_calls[3].before = 0 /\ ~q_calls[3].returned

\* C27: the step of process_youtube_link that enters the processing of a link
\* of a limited user lowers remaining_requests of that user by exactly one,
\* before the transcript is fetched; the rest of the handler, whatever its
\* outcome, leaves the users as they are; a message rejected for lack of
\* access changes no counter.
C27_AcceptedLinkCostsOneRequest ==
    [][ /\ \A t \in 1..Len(tasks) :
              /\ (tasks[t].pc = "answering" /\ tasks'[t].pc = "processing"
                     /\ Limited(users[tasks[t].user]))
                    => users'[tasks[t].user].remaining_requests
                          = users[tasks[t].user].remaining_requests - 1
              /\ (tasks[t].pc = "processing" /\ tasks'[t].pc = "done") => users' = users
        /\ (Len(tasks') > Len(tasks) /\ tasks'[Len(tasks')].outcome = "rejected")
              => \A u \in DOMAIN users : users'[u] = users[u] ]_vars

\* ------------------------------------------------------------------------
\* Claims about the delivery of a summary (specification SpecPage)
\* ------------------------------------------------------------------------

Visible(text) == SelectSeq(text, LAMBDA ch : ~IsSpace(ch))

\* the part of the sent messages that carries the summary: the one message
\* without its title line, or the messages after the title line
Delivered(messages, title_line) ==
    IF Len(messages) = 1 THEN Drop(messages[1], Len(title_line)) ELSE FlatText(Tail(messages))

Writer(j) ==
    CHOOSE i \in 1..(j - 1) :
        /\ k_calls[i].key = k_calls[j].key /\ ~k_calls[i].hit /\ k_calls[i].ok
        /\ \A h \in (i + 1)..(j - 1) :
              ~(k_calls[h].key = k_calls[j].key /\ ~k_calls[h].hit /\ k_calls[h].ok)

\* C30: a call of summarize_text or combine_summaries that is answered from
\* the cache gets a response that was stored for exactly the same request:
\* the same method with the same text (or list of summaries), title and model.
C30_CacheAnswersIdenticalRequestOnly ==
    \A j \in 1..Len(k_calls) :
        k_calls[j].hit => k_calls[Writer(j)].request = k_calls[j].request

====
